---- MODULE Spec2Model ----
(***************************************************************************)
(* Parrator smart cleanup: the rule-based cleanup engine (rule_engine.py), *)
(* the two network engines (llm_engine.py, http_engine.py) and the cleanup *)
(* manager (manager.py).                                                   *)
(*                                                                         *)
(* A text is a sequence of characters; a character is a one-character      *)
(* string, except the emoji "U+1F600" and the backquote "BACKTICK".          *)
(* Positions are 1-based; a match is a pair <<start, end>> with end      *)
(* exclusive, so Python's match.start() is start-1 and match.end() is      *)
(* end-1.                                                                  *)
(***************************************************************************)
EXTENDS Integers, Sequences, FiniteSets, TLC

(***************************************************************************)
(* Characters and character classes of Python's re module.                 *)
(***************************************************************************)
LowerSeq == << "a", "b", "c", "d", "e", "f", "g", "h", "i", "j", "k", "l", "m",
               "n", "o", "p", "q", "r", "s", "t", "u", "v", "w", "x", "y", "z" >>

UpperSeq == << "A", "B", "C", "D", "E", "F", "G", "H", "I", "J", "K", "L", "M",
               "N", "O", "P", "Q", "R", "S", "T", "U", "V", "W", "X", "Y", "Z" >>

DigitSeq == << "0", "1", "2", "3", "4", "5", "6", "7", "8", "9" >>

Lower == { LowerSeq[k] : k \in 1..26 }

Upper == { UpperSeq[k] : k \in 1..26 }

Letter == Lower \cup Upper

Digit == { DigitSeq[k] : k \in 1..10 }

\* \s
Space == { " ", "\t", "\n" }

\* \w
WordCh == Letter \cup Digit \cup { "_" }

\* [,.!?;:]
Punct == { ",", ".", "!", "?", ";", ":" }

\* [.!?]
SentenceEnd == { ".", "!", "?" }

\* [aeiou] under re.IGNORECASE
Vowel == { "a", "e", "i", "o", "u", "A", "E", "I", "O", "U" }

\* [bcdfghjklmnpqrstvwxyz] under re.IGNORECASE
Consonant == Letter \ Vowel

\* [A-Za-z0-9._%+-]
EmailLocal == Letter \cup Digit \cup { ".", "_", "%", "+", "-" }

\* [A-Za-z0-9.-]
EmailDomain == Letter \cup Digit \cup { ".", "-" }

\* [A-Z|a-z]
EmailTld == Letter \cup { "|" }

\* [A-Za-z0-9_]
HashtagCh == Letter \cup Digit \cup { "_" }

\* [\U0001F600-\U0001F64F...]: one representative of the emoji ranges
Emoji == { "U+1F600" }

\* the backquote character (a string literal cannot hold it)
Backtick == "BACKTICK"

UpperOf == [ c \in Lower |-> UpperSeq[CHOOSE k \in 1..26 : LowerSeq[k] = c] ]

LowerOf == [ c \in Upper |-> LowerSeq[CHOOSE k \in 1..26 : UpperSeq[k] = c] ]

\* str.upper() of one character
ToUpper(c) == IF c \in Lower THEN UpperOf[c] ELSE c

\* str.lower() of one character
ToLower(c) == IF c \in Upper THEN LowerOf[c] ELSE c

\* character equality under re.IGNORECASE
SameCI(c, d) == ToLower(c) = ToLower(d)

Max(S) == CHOOSE x \in S : \A y \in S : y <= x

(***************************************************************************)
(* String primitives.                                                      *)
(***************************************************************************)
\* Body(v), with v computed once and before Body
With(v, Body(_)) == CHOOSE r \in { Body(x) : x \in { v } } : TRUE

\* text[k:] (k counted from 0), clamped as Python clamps slices
DropFirst(s, k) == IF k >= Len(s) THEN << >> ELSE SubSeq(s, k + 1, Len(s))

\* text[:k], clamped
TakeFirst(s, k) == IF k >= Len(s) THEN s ELSE SubSeq(s, 1, k)

\* text[start-1:end-1] for a match <<start, end>>
Slice(s, start, end) == IF end <= start THEN << >> ELSE SubSeq(s, start, end - 1)

RECURSIVE LStripFrom(_, _)
LStripFrom(s, i) ==
    IF i <= Len(s) /\ s[i] \in Space THEN LStripFrom(s, i + 1) ELSE i

RECURSIVE RStripFrom(_, _)
RStripFrom(s, j) ==
    IF j >= 1 /\ s[j] \in Space THEN RStripFrom(s, j - 1) ELSE j

\* str.strip()
Strip(s) ==
    With(LStripFrom(s, 1), LAMBDA i :
    With(RStripFrom(s, Len(s)), LAMBDA j :
    IF i > j THEN << >> ELSE SubSeq(s, i, j)))

\* "not text or not text.strip()"
IsBlank(s) == Strip(s) = << >>

\* the literal lit stands at position i of s
LitAt(s, i, lit) ==
    /\ i + Len(lit) - 1 <= Len(s)
    /\ \A k \in 1..Len(lit) : s[i + k - 1] = lit[k]

\* the same under re.IGNORECASE
LitAtCI(s, i, lit) ==
    /\ i + Len(lit) - 1 <= Len(s)
    /\ \A k \in 1..Len(lit) : SameCI(s[i + k - 1], lit[k])

\* \b before position i (i in 1..Len(s)+1)
AtB(s, i) ==
    LET l == i > 1 /\ i - 1 <= Len(s) /\ s[i - 1] \in WordCh
        r == i >= 1 /\ i <= Len(s) /\ s[i] \in WordCh
    IN  l # r

\* the end (exclusive) of the longest run of characters of C that starts at i
RECURSIVE RunEnd(_, _, _)
RunEnd(s, i, C) ==
    IF i <= Len(s) /\ s[i] \in C THEN RunEnd(s, i + 1, C) ELSE i

\* the end (exclusive) of the longest run of characters not in C from i
RECURSIVE RunEndNot(_, _, _)
RunEndNot(s, i, C) ==
    IF i <= Len(s) /\ s[i] \notin C THEN RunEndNot(s, i + 1, C) ELSE i

\* str.endswith
EndsWith(s, suf) ==
    /\ Len(suf) <= Len(s)
    /\ SubSeq(s, Len(s) - Len(suf) + 1, Len(s)) = suf

Min(S) == CHOOSE x \in S : \A y \in S : x <= y

\* re.sub(pattern, repl, s): the non-overlapping matches, leftmost first.
\* M(s, i) is the end (exclusive) of the pattern's match at i, 0 if none;
\* R(s, i, e) is what replaces the match s[i..e-1].  sub[from] is the
\* result for the part of s that starts at from.
ReSub(s, M(_, _), R(_, _, _)) ==
    LET sub[from \in 1..(Len(s) + 1)] ==
            With(Min({ i \in from..Len(s) : M(s, i) > i } \cup { Len(s) + 1 }),
                 LAMBDA i :
                    IF i > Len(s) THEN DropFirst(s, from - 1)
                    ELSE With(M(s, i),
                              LAMBDA e : Slice(s, from, i) \o R(s, i, e) \o sub[e]))
    IN  sub[1]

\* pattern.finditer(s): the matches <<start, end>>, leftmost first
FindIter(s, M(_, _)) ==
    LET find[from \in 1..(Len(s) + 1)] ==
            With(Min({ i \in from..Len(s) : M(s, i) > i } \cup { Len(s) + 1 }),
                 LAMBDA i :
                    IF i > Len(s) THEN << >>
                    ELSE With(M(s, i), LAMBDA e : << << i, e >> >> \o find[e]))
    IN  find[1]

\* the first occurrence of the literal lit at or after i, 0 if none
RECURSIVE IndexOfFrom(_, _, _)
IndexOfFrom(s, i, lit) ==
    IF i + Len(lit) - 1 > Len(s) THEN 0
    ELSE IF LitAt(s, i, lit) THEN i
    ELSE IndexOfFrom(s, i + 1, lit)

\* str.replace(old, new) for a non-empty old
RECURSIVE StrReplace(_, _, _)
StrReplace(s, old, new) ==
    With(IndexOfFrom(s, 1, old),
         LAMBDA p :
            IF p = 0 THEN s
            ELSE SubSeq(s, 1, p - 1) \o new
                 \o StrReplace(DropFirst(s, p + Len(old) - 1), old, new))

(***************************************************************************)
(* RuleEngine._compile_patterns: the patterns, each as the end (exclusive) *)
(* of its match at position i, 0 when it does not match there.             *)
(***************************************************************************)
\* url_pattern  https?://[^\s]+
UrlMatch(s, i) ==
    With(IF LitAt(s, i, << "h", "t", "t", "p", "s", ":", "/", "/" >>) THEN i + 8
         ELSE IF LitAt(s, i, << "h", "t", "t", "p", ":", "/", "/" >>) THEN i + 7
         ELSE 0,
         LAMBDA a :
            IF a = 0 THEN 0
            ELSE With(RunEndNot(s, a, Space), LAMBDA e : IF e > a THEN e ELSE 0))

\* the top-level domain [A-Z|a-z]{2,}\b after the dot at p: the longest first
EmailTldEnd(s, p) ==
    With({ r \in (p + 3)..RunEnd(s, p + 1, EmailTld) : AtB(s, r) },
         LAMBDA ends : IF ends = {} THEN 0 ELSE Max(ends))

\* email_pattern  \b[A-Za-z0-9._%+-]+@[A-Za-z0-9.-]+\.[A-Z|a-z]{2,}\b
EmailMatch(s, i) ==
    IF ~(i <= Len(s) /\ s[i] \in EmailLocal /\ AtB(s, i)) THEN 0
    ELSE With(RunEnd(s, i, EmailLocal),
              LAMBDA j :
                 IF ~(j <= Len(s) /\ s[j] = "@") THEN 0
                 ELSE With({ EmailTldEnd(s, p) :
                               p \in { q \in (j + 2)..(RunEnd(s, j + 1, EmailDomain) - 1) :
                                         s[q] = "." } },
                           LAMBDA ends :
                              \* the end after the last dot that a top-level
                              \* domain follows (the ends grow with the dot)
                              IF ends \subseteq { 0 } THEN 0 ELSE Max(ends)))

\* code_pattern: a backquote, [^backquote]+, a backquote
CodeMatch(s, i) ==
    IF ~(i <= Len(s) /\ s[i] = Backtick) THEN 0
    ELSE With(RunEndNot(s, i + 1, { Backtick }),
              LAMBDA k : IF k > i + 1 /\ k <= Len(s) THEN k + 1 ELSE 0)

\* hashtag_pattern  #[A-Za-z0-9_]+
HashtagMatch(s, i) ==
    IF ~(i <= Len(s) /\ s[i] = "#") THEN 0
    ELSE With(RunEnd(s, i + 1, HashtagCh), LAMBDA e : IF e > i + 1 THEN e ELSE 0)

\* emoji_pattern: one character of the emoji ranges
EmojiMatch(s, i) == IF i <= Len(s) /\ s[i] \in Emoji THEN i + 1 ELSE 0

\* whitespace_pattern  \s+
WhitespaceMatch(s, i) ==
    IF i <= Len(s) /\ s[i] \in Space THEN RunEnd(s, i, Space) ELSE 0

OneSpace(s, i, e) == << " " >>

\* punctuation_spacing_pattern  \s*([,.!?;:])\s*
PunctuationSpacingMatch(s, i) ==
    With(RunEnd(s, i, Space),
         LAMBDA j : IF j <= Len(s) /\ s[j] \in Punct THEN RunEnd(s, j + 1, Space) ELSE 0)

\* r" \1 "
PunctuationSpacingRepl(s, i, e) == << " ", s[RunEnd(s, i, Space)], " " >>

\* (?:\s+\1)+\b from pos for the word w: the longest chain of repetitions
\* that ends on a word boundary (greedy, then backtracking)
RECURSIVE RepeatsEnd(_, _, _)
RepeatsEnd(s, pos, w) ==
    With(RunEnd(s, pos, Space),
         LAMBDA j :
            IF j > pos /\ LitAtCI(s, j, w)
            THEN With(RepeatsEnd(s, j + Len(w), w),
                      LAMBDA more :
                         IF more > 0 THEN more
                         ELSE IF AtB(s, j + Len(w)) THEN j + Len(w) ELSE 0)
            ELSE 0)

\* repeated_words_pattern  \b(\w+)(?:\s+\1)+\b  (re.IGNORECASE)
RepeatedWordsMatch(s, i) ==
    IF ~(i <= Len(s) /\ s[i] \in WordCh /\ AtB(s, i)) THEN 0
    ELSE With(RunEnd(s, i, WordCh), LAMBDA we : RepeatsEnd(s, we, Slice(s, i, we)))

\* r"\1"
RepeatedWordsRepl(s, i, e) == Slice(s, i, RunEnd(s, i, WordCh))

\* repeated_letters_pattern  ([a-zA-Z])\1{2,}
RepeatedLettersMatch(s, i) ==
    IF ~(i <= Len(s) /\ s[i] \in Letter) THEN 0
    ELSE With(RunEnd(s, i, { s[i] }), LAMBDA e : IF e - i >= 3 THEN e ELSE 0)

\* r"\1\1"
RepeatedLettersRepl(s, i, e) == << s[i], s[i] >>

(***************************************************************************)
(* Span protection: the placeholder loops of _pre_clean and _final_clean.  *)
(***************************************************************************)
\* str(n)
RECURSIVE Decimal(_)
Decimal(n) ==
    IF n < 10 THEN << DigitSeq[n + 1] >>
    ELSE Decimal(n \div 10) \o << DigitSeq[(n % 10) + 1] >>

\* "__PRESERVED_"
PreservedPrefix ==
    << "_", "_", "P", "R", "E", "S", "E", "R", "V", "E", "D", "_" >>

\* "__FINAL_PRESERVED_"
FinalPreservedPrefix ==
    << "_", "_", "F", "I", "N", "A", "L", "_",
       "P", "R", "E", "S", "E", "R", "V", "E", "D", "_" >>

\* f"{prefix}{placeholder_counter}__"
Placeholder(prefix, n) == prefix \o Decimal(n) \o << "_", "_" >>

\* the matches of _pre_clean, pattern by pattern (lines 123-132)
PreCleanMatches(s) ==
    FindIter(s, UrlMatch) \o FindIter(s, EmailMatch) \o FindIter(s, CodeMatch)
        \o FindIter(s, HashtagMatch) \o FindIter(s, EmojiMatch)

\* the matches of _final_clean (lines 227-230)
FinalCleanMatches(s) ==
    FindIter(s, UrlMatch) \o FindIter(s, EmailMatch) \o FindIter(s, CodeMatch)

\* list.sort(key=lambda x: x[0], reverse=True): stable, descending start
RECURSIVE SortByStartDesc(_)
SortByStartDesc(ms) ==
    IF Len(ms) <= 1 THEN ms
    ELSE With(SortByStartDesc(SubSeq(ms, 1, Len(ms) - 1)),
              LAMBDA rest :
                 \* the last element goes after every element whose start is
                 \* >= its start
                 With(Cardinality({ x \in 1..Len(rest) : rest[x][1] >= ms[Len(ms)][1] }),
                      LAMBDA k : SubSeq(rest, 1, k) \o << ms[Len(ms)] >>
                                    \o SubSeq(rest, k + 1, Len(rest))))

\* the replacement loop (lines 137-141, 235-239): match k of ms is cut
\* out of the current text by the offsets found in the original text
RECURSIVE ProtectLoop(_, _, _, _, _, _)
ProtectLoop(orig, ms, k, prefix, text, map) ==
    IF k > Len(ms) THEN [ text |-> text, map |-> map ]
    ELSE With(Placeholder(prefix, k - 1),
              LAMBDA placeholder :
                 With(<< TakeFirst(text, ms[k][1] - 1) \o placeholder
                             \o DropFirst(text, ms[k][2] - 1),
                         Append(map, << placeholder, Slice(orig, ms[k][1], ms[k][2]) >>) >>,
                      LAMBDA tm : ProtectLoop(orig, ms, k + 1, prefix, tm[1], tm[2])))

\* protect: the text with placeholders, and placeholder_map in insertion order
Protect(s, matches, prefix) ==
    With(SortByStartDesc(matches),
         LAMBDA ms : ProtectLoop(s, ms, 1, prefix, s, << >>))

\* for placeholder, original in placeholder_map.items(): text.replace(...)
RECURSIVE Restore(_, _)
Restore(text, map) ==
    IF map = << >> THEN text
    ELSE With(StrReplace(text, map[1][1], map[1][2]),
              LAMBDA t : Restore(t, Tail(map)))

\* _pre_clean, lines 143-154: the rewrites between protect and restore
PreCleanRewrites(t) ==
    With(ReSub(Strip(t), WhitespaceMatch, OneSpace), LAMBDA t1 :
    With(ReSub(t1, PunctuationSpacingMatch, PunctuationSpacingRepl), LAMBDA t2 :
    With(ReSub(t2, WhitespaceMatch, OneSpace), LAMBDA t3 :
    With(ReSub(t3, RepeatedWordsMatch, RepeatedWordsRepl), LAMBDA t4 :
    ReSub(t4, RepeatedLettersMatch, RepeatedLettersRepl)))))

\* RuleEngine._pre_clean
PreClean(text) ==
    IF IsBlank(text) THEN << >>
    ELSE With(Protect(text, PreCleanMatches(text), PreservedPrefix), LAMBDA p :
         With(PreCleanRewrites(p.text), LAMBDA rewritten :
         Restore(rewritten, p.map)))

(***************************************************************************)
(* RuleEngine._conservative_clean and _sentence_capitalization.            *)
(***************************************************************************)
\* i_pattern  \bi\b  (re.IGNORECASE)
IMatch(s, i) ==
    IF i <= Len(s) /\ SameCI(s[i], "i") /\ AtB(s, i) /\ AtB(s, i + 1)
    THEN i + 1 ELSE 0

IRepl(s, i, e) == << "I" >>

\* a_an_pattern  \b(a)\s+([aeiou])  (re.IGNORECASE)
AAnMatch(s, i) ==
    IF ~(i <= Len(s) /\ SameCI(s[i], "a") /\ AtB(s, i)) THEN 0
    ELSE With(RunEnd(s, i + 1, Space),
              LAMBDA j : IF j > i + 1 /\ j <= Len(s) /\ s[j] \in Vowel THEN j + 1 ELSE 0)

\* r"an \2"
AAnRepl(s, i, e) == << "a", "n", " ", s[e - 1] >>

\* an_consonant_pattern  \b(an)\s+([bcdfghjklmnpqrstvwxyz])  (re.IGNORECASE)
AnConsonantMatch(s, i) ==
    IF ~(LitAtCI(s, i, << "a", "n" >>) /\ AtB(s, i)) THEN 0
    ELSE With(RunEnd(s, i + 2, Space),
              LAMBDA j : IF j > i + 2 /\ j <= Len(s) /\ s[j] \in Consonant
                         THEN j + 1 ELSE 0)

\* r"a \2"
AnConsonantRepl(s, i, e) == << "a", " ", s[e - 1] >>

\* sentence_boundary_pattern  ([.!?]+)\s*([a-z])
SentenceBoundaryMatch(s, i) ==
    IF ~(i <= Len(s) /\ s[i] \in SentenceEnd) THEN 0
    ELSE With(RunEnd(s, RunEnd(s, i, SentenceEnd), Space),
              LAMBDA k : IF k <= Len(s) /\ s[k] \in Lower THEN k + 1 ELSE 0)

\* a capitalize_safely that looks at no range
CapitalizeAnywhere(ranges, k) == TRUE

\* capitalize_safely(pos): position k lies in none of the ranges
CapitalizeSafely(ranges, k) ==
    \A n \in 1..Len(ranges) : ~(ranges[n][1] <= k /\ k < ranges[n][2])

\* capitalize_match of _sentence_capitalization
CapitalizeMatch(preserved_ranges, s, i, e) ==
    IF CapitalizeSafely(preserved_ranges, e - 1)
    THEN Slice(s, i, RunEnd(s, i, SentenceEnd)) \o << " ", ToUpper(s[e - 1]) >>
    ELSE Slice(s, i, e)

\* RuleEngine._sentence_capitalization
SentenceCapitalization(text) ==
    With(FinalCleanMatches(text), LAMBDA preserved_ranges :
    With(IF text # << >> /\ CapitalizeSafely(preserved_ranges, 1)
         THEN << ToUpper(text[1]) >> \o Tail(text)
         ELSE text, LAMBDA first :
    ReSub(first, SentenceBoundaryMatch,
          LAMBDA s, i, e : CapitalizeMatch(preserved_ranges, s, i, e))))

\* RuleEngine._conservative_clean
ConservativeClean(text) ==
    With(ReSub(text, IMatch, IRepl), LAMBDA t1 :
    With(ReSub(t1, AAnMatch, AAnRepl), LAMBDA t2 :
    With(ReSub(t2, AnConsonantMatch, AnConsonantRepl), LAMBDA t3 :
    SentenceCapitalization(t3))))

(***************************************************************************)
(* RuleEngine._remove_filler_words_safe, _remove_redundant_phrases,        *)
(* _standard_clean.                                                        *)
(***************************************************************************)
\* \b(?:w1|w2|...)\b at i under re.IGNORECASE: the first alternative, in the
\* order of the list, that matches and ends on a word boundary
AlternativesMatch(s, i, words) ==
    IF ~AtB(s, i) THEN 0
    ELSE With({ n \in 1..Len(words) :
                  /\ words[n] # << >>
                  /\ LitAtCI(s, i, words[n])
                  /\ AtB(s, i + Len(words[n])) },
              LAMBDA ok : IF ok # {} THEN i + Len(words[Min(ok)]) ELSE 0)

\* re.sub(r"\b<phrase>\b", repl, text, flags=re.IGNORECASE)
ReplacePhrase(text, phrase, repl) ==
    ReSub(text, LAMBDA s, i : AlternativesMatch(s, i, << phrase >>),
                LAMBDA s, i, e : repl)

\* for pattern, replacement in table: text = re.sub(pattern, replacement, ...)
RECURSIVE ReplacePhrases(_, _)
ReplacePhrases(text, table) ==
    IF table = << >> THEN text
    ELSE With(ReplacePhrase(text, table[1][1], table[1][2]),
              LAMBDA t : ReplacePhrases(t, Tail(table)))

\* ([.!?])\s+([a-z])  (line 329)
FillerBoundaryMatch(s, i) ==
    IF ~(i <= Len(s) /\ s[i] \in SentenceEnd) THEN 0
    ELSE With(RunEnd(s, i + 1, Space),
              LAMBDA j : IF j > i + 1 /\ j <= Len(s) /\ s[j] \in Lower THEN j + 1 ELSE 0)

\* m.group(1) + " " + m.group(2).upper()
FillerBoundaryRepl(s, i, e) == << s[i], " ", ToUpper(s[e - 1]) >>

\* sentence_starters (lines 335-344)
SentenceStarters ==
    << << "t", "h", "a", "n", "k", "s" >>,
       << "t", "h", "a", "n", "k" >>,
       << "p", "l", "e", "a", "s", "e" >>,
       << "s", "o", "r", "r", "y" >>,
       << "e", "x", "c", "u", "s", "e" >>,
       << "h", "e", "y" >>,
       << "h", "i" >>,
       << "h", "e", "l", "l", "o" >> >>

\* ([a-z])\s+(thanks|thank|...)\b  (re.IGNORECASE, line 345)
StarterMatch(s, i) ==
    IF ~(i <= Len(s) /\ s[i] \in Letter) THEN 0
    ELSE With(RunEnd(s, i + 1, Space),
              LAMBDA j :
                 IF j = i + 1 THEN 0
                 ELSE With({ n \in 1..Len(SentenceStarters) :
                               /\ LitAtCI(s, j, SentenceStarters[n])
                               /\ AtB(s, j + Len(SentenceStarters[n])) },
                           LAMBDA ok :
                              IF ok # {} THEN j + Len(SentenceStarters[Min(ok)])
                              ELSE 0))

\* str.capitalize()
Capitalize(w) ==
    [ k \in 1..Len(w) |-> IF k = 1 THEN ToUpper(w[k]) ELSE ToLower(w[k]) ]

\* m.group(1) + ". " + m.group(2).capitalize()
StarterRepl(s, i, e) ==
    << s[i], ".", " " >> \o Capitalize(Slice(s, RunEnd(s, i + 1, Space), e))

\* replace_filler of _remove_filler_words_safe
ReplaceFiller(preserved_segments, s, i, e) ==
    IF \E n \in 1..Len(preserved_segments) :
           /\ preserved_segments[n][1] <= i
           /\ e <= preserved_segments[n][2]
    THEN Slice(s, i, e)
    ELSE << >>

\* RuleEngine._remove_filler_words_safe; filler_words is
\* self.config.get("filler_words", [])
RemoveFillerWordsSafe(text, filler_words) ==
    With(PreCleanMatches(text), LAMBDA preserved_segments :
    With(ReSub(text, LAMBDA s, i : AlternativesMatch(s, i, filler_words),
                     LAMBDA s, i, e : ReplaceFiller(preserved_segments, s, i, e)),
         LAMBDA t1 :
    With(ReSub(Strip(t1), WhitespaceMatch, OneSpace), LAMBDA t2 :
    With(ReSub(t2, FillerBoundaryMatch, FillerBoundaryRepl), LAMBDA t3 :
    ReSub(t3, StarterMatch, StarterRepl)))))

\* redundant_patterns (lines 357-365)
RedundantPatterns ==
    << << << "i", " ", "t", "h", "i", "n", "k" >>,
          << >> >>,
       << << "i", " ", "f", "e", "e", "l", " ", "l", "i", "k", "e" >>,
          << >> >>,
       << << "i", "t", " ", "s", "e", "e", "m", "s", " ", "l", "i", "k", "e" >>,
          << >> >>,
       << << "w", "h", "a", "t", " ", "i", " ", "m", "e", "a", "n", " ", "i", "s" >>,
          << >> >>,
       << << "t", "h", "e", " ", "t", "h", "i", "n", "g", " ", "i", "s" >>,
          << >> >>,
       << << "k", "i", "n", "d", " ", "o", "f" >>,
          << >> >>,
       << << "s", "o", "r", "t", " ", "o", "f" >>,
          << >> >> >>

\* \s*,\s*,\s*  (line 372)
DoubleCommaMatch(s, i) ==
    With(RunEnd(s, i, Space),
         LAMBDA j :
            IF ~(j <= Len(s) /\ s[j] = ",") THEN 0
            ELSE With(RunEnd(s, j + 1, Space),
                      LAMBDA k : IF k <= Len(s) /\ s[k] = ","
                                 THEN RunEnd(s, k + 1, Space) ELSE 0))

CommaSpace(s, i, e) == << ",", " " >>

\* ,\s*,  (line 373)
ConsecutiveCommaMatch(s, i) ==
    IF ~(i <= Len(s) /\ s[i] = ",") THEN 0
    ELSE With(RunEnd(s, i + 1, Space),
              LAMBDA k : IF k <= Len(s) /\ s[k] = "," THEN k + 1 ELSE 0)

OneComma(s, i, e) == << "," >>

\* RuleEngine._remove_redundant_phrases
RemoveRedundantPhrases(text) ==
    With(ReplacePhrases(text, RedundantPatterns), LAMBDA t1 :
    With(ReSub(t1, WhitespaceMatch, OneSpace), LAMBDA t2 :
    With(ReSub(t2, DoubleCommaMatch, CommaSpace), LAMBDA t3 :
    ReSub(t3, ConsecutiveCommaMatch, OneComma))))

\* RuleEngine._standard_clean
StandardClean(text, filler_words) ==
    With(ConservativeClean(text), LAMBDA t1 :
    With(RemoveFillerWordsSafe(t1, filler_words), LAMBDA t2 :
    With(RemoveRedundantPhrases(t2), LAMBDA t3 :
    SentenceCapitalization(t3))))

(***************************************************************************)
(* RuleEngine._aggressive_tightening, _improve_flow, _rewrite_clean.       *)
(***************************************************************************)
\* tightening_patterns (lines 379-387)
TighteningPatterns ==
    << << << "i", "n", " ", "o", "r", "d", "e", "r", " ", "t", "o" >>,
          << "t", "o" >> >>,
       << << "d", "u", "e", " ", "t", "o", " ", "t", "h", "e", " ", "f", "a", "c", "t", " ", "t", "h", "a", "t" >>,
          << "b", "e", "c", "a", "u", "s", "e" >> >>,
       << << "a", "t", " ", "t", "h", "i", "s", " ", "p", "o", "i", "n", "t", " ", "i", "n", " ", "t", "i", "m", "e" >>,
          << "n", "o", "w" >> >>,
       << << "f", "o", "r", " ", "t", "h", "e", " ", "p", "u", "r", "p", "o", "s", "e", " ", "o", "f" >>,
          << "f", "o", "r" >> >>,
       << << "o", "n", " ", "t", "h", "e", " ", "b", "a", "s", "i", "s", " ", "o", "f" >>,
          << "b", "a", "s", "e", "d", " ", "o", "n" >> >>,
       << << "w", "i", "t", "h", " ", "r", "e", "g", "a", "r", "d", " ", "t", "o" >>,
          << "a", "b", "o", "u", "t" >> >>,
       << << "i", "n", " ", "t", "h", "e", " ", "e", "v", "e", "n", "t", " ", "t", "h", "a", "t" >>,
          << "i", "f" >> >> >>

AggressiveTightening(text) == ReplacePhrases(text, TighteningPatterns)

\* \b<verb>\b\s+(\w+)\s+\bby\b  (re.IGNORECASE), verb "is" or "are"
PassiveMatch(s, i, verb) ==
    IF ~(LitAtCI(s, i, verb) /\ AtB(s, i) /\ AtB(s, i + Len(verb))) THEN 0
    ELSE With(RunEnd(s, i + Len(verb), Space), LAMBDA j :
         With(RunEnd(s, j, WordCh), LAMBDA k :
         With(RunEnd(s, k, Space), LAMBDA l :
         IF /\ j > i + Len(verb)
            /\ k > j
            /\ l > k
            /\ LitAtCI(s, l, << "b", "y" >>)
            /\ AtB(s, l + 2)
         THEN l + 2 ELSE 0)))

\* r"\1": the verb between "is"/"are" and "by"
PassiveRepl(s, i, e, verb) ==
    With(RunEnd(s, i + Len(verb), Space),
         LAMBDA j : Slice(s, j, RunEnd(s, j, WordCh)))

\* qualifier_patterns (lines 401-407)
QualifierPatterns ==
    << << << "v", "e", "r", "y" >>,
          << >> >>,
       << << "r", "e", "a", "l", "l", "y" >>,
          << >> >>,
       << << "q", "u", "i", "t", "e" >>,
          << >> >>,
       << << "p", "r", "e", "t", "t", "y" >>,
          << >> >>,
       << << "s", "o", "m", "e", "w", "h", "a", "t" >>,
          << >> >> >>

\* RuleEngine._improve_flow
ImproveFlow(text) ==
    With(ReSub(text, LAMBDA s, i : PassiveMatch(s, i, << "i", "s" >>),
                     LAMBDA s, i, e : PassiveRepl(s, i, e, << "i", "s" >>)), LAMBDA t1 :
    With(ReSub(t1, LAMBDA s, i : PassiveMatch(s, i, << "a", "r", "e" >>),
                   LAMBDA s, i, e : PassiveRepl(s, i, e, << "a", "r", "e" >>)), LAMBDA t2 :
    ReplacePhrases(t2, QualifierPatterns)))

\* RuleEngine._rewrite_clean
RewriteClean(text, filler_words) ==
    With(StandardClean(text, filler_words), LAMBDA t1 :
    With(AggressiveTightening(t1), LAMBDA t2 :
    ImproveFlow(t2)))

(***************************************************************************)
(* RuleEngine._final_clean.                                                *)
(***************************************************************************)
\* \blink\s+(https?://)  (re.IGNORECASE, lines 217 and 261)
LinkMatch(s, i) ==
    IF ~(LitAtCI(s, i, << "l", "i", "n", "k" >>) /\ AtB(s, i)) THEN 0
    ELSE With(RunEnd(s, i + 4, Space),
              LAMBDA j :
                 IF j = i + 4 THEN 0
                 ELSE IF LitAtCI(s, j, << "h", "t", "t", "p", "s", ":", "/", "/" >>) THEN j + 8
                 ELSE IF LitAtCI(s, j, << "h", "t", "t", "p", ":", "/", "/" >>) THEN j + 7
                 ELSE 0)

\* r"link: \1"
LinkRepl(s, i, e) ==
    << "l", "i", "n", "k", ":", " " >> \o Slice(s, RunEnd(s, i + 4, Space), e)

\* ([a-z])\s+([A-Z][a-z]+)  (lines 221 and 265)
SpliceMatch(s, i) ==
    IF ~(i <= Len(s) /\ s[i] \in Lower) THEN 0
    ELSE With(RunEnd(s, i + 1, Space),
              LAMBDA j :
                 IF j > i + 1 /\ j <= Len(s) /\ s[j] \in Upper
                 THEN With(RunEnd(s, j + 1, Lower),
                           LAMBDA k : IF k > j + 1 THEN k ELSE 0)
                 ELSE 0)

\* r"\1. \2"
SpliceRepl(s, i, e) == << s[i], ".", " " >> \o Slice(s, RunEnd(s, i + 1, Space), e)

\* $: the end of the string, or just before a newline that ends it
AtEnd(s, p) == p = Len(s) + 1 \/ (p = Len(s) /\ s[p] = "\n")

\* \bthanks\b\.?$  (line 224)
ThanksMatch(s, i) ==
    IF ~(LitAt(s, i, << "t", "h", "a", "n", "k", "s" >>) /\ AtB(s, i) /\ AtB(s, i + 6)) THEN 0
    ELSE IF i + 6 <= Len(s) /\ s[i + 6] = "." /\ AtEnd(s, i + 7) THEN i + 7
    ELSE IF AtEnd(s, i + 6) THEN i + 6
    ELSE 0

ThanksRepl(s, i, e) == << "T", "h", "a", "n", "k", "s" >>

\* ,+  (line 245)
CommasMatch(s, i) ==
    IF i <= Len(s) /\ s[i] = "," THEN RunEnd(s, i, { "," }) ELSE 0

\* \s*<c>\s*  (lines 247 and 248), c a comma or a period
SpacedCharMatch(s, i, c) ==
    With(RunEnd(s, i, Space),
         LAMBDA j : IF j <= Len(s) /\ s[j] = c THEN RunEnd(s, j + 1, Space) ELSE 0)

\* \s+([,.!?;:])  (line 251)
SpaceBeforePunctMatch(s, i) ==
    IF ~(i <= Len(s) /\ s[i] \in Space) THEN 0
    ELSE With(RunEnd(s, i, Space),
              LAMBDA j : IF j <= Len(s) /\ s[j] \in Punct THEN j + 1 ELSE 0)

\* r"\1"
SpaceBeforePunctRepl(s, i, e) == << s[e - 1] >>

\* ([,.!?;:])(?=[^\s])  (line 254)
PunctNoSpaceMatch(s, i) ==
    IF i + 1 <= Len(s) /\ s[i] \in Punct /\ s[i + 1] \notin Space
    THEN i + 1 ELSE 0

\* r"\1 "
PunctNoSpaceRepl(s, i, e) == << s[i], " " >>

\* _final_clean, lines 217-224: the rewrites before the protection
FinalCleanBefore(text) ==
    With(ReSub(text, LinkMatch, LinkRepl), LAMBDA t1 :
    With(ReSub(t1, SpliceMatch, SpliceRepl), LAMBDA t2 :
    ReSub(t2, ThanksMatch, ThanksRepl)))

\* r". "
PeriodSpace(s, i, e) == << ".", " " >>

\* _final_clean, lines 242-265: the rewrites between protect and restore
FinalCleanRewrites(t) ==
    With(ReSub(Strip(t), WhitespaceMatch, OneSpace), LAMBDA t1 :
    With(ReSub(t1, CommasMatch, OneComma), LAMBDA t2 :
    With(ReSub(t2, WhitespaceMatch, OneSpace), LAMBDA t3 :
    With(ReSub(t3, LAMBDA s, i : SpacedCharMatch(s, i, ","), CommaSpace), LAMBDA t4 :
    With(ReSub(t4, LAMBDA s, i : SpacedCharMatch(s, i, "."), PeriodSpace), LAMBDA t5 :
    With(ReSub(t5, SpaceBeforePunctMatch, SpaceBeforePunctRepl), LAMBDA t6 :
    With(ReSub(t6, PunctNoSpaceMatch, PunctNoSpaceRepl), LAMBDA t7 :
    With(Strip(ReSub(t7, WhitespaceMatch, OneSpace)), LAMBDA t8 :
    With(ReSub(t8, LinkMatch, LinkRepl), LAMBDA t9 :
    ReSub(t9, SpliceMatch, SpliceRepl))))))))))

\* a period step that does not look for a code span at the end
AddFinalPeriodAfterCode(text) ==
    IF text = << >> \/ text[Len(text)] \in { ".", "!", "?", ";", ":" } THEN text
    ELSE Append(text, ".")

\* _final_clean, lines 272-279: the period at the end
AddFinalPeriod(text) ==
    IF text = << >> \/ text[Len(text)] \in { ".", "!", "?", ";", ":" } THEN text
    ELSE With(FindIter(text, CodeMatch),
              LAMBDA codes :
                 \* ends_with_code
                 IF \E n \in 1..Len(codes) :
                        EndsWith(text, Slice(text, codes[n][1], codes[n][2]))
                 THEN text
                 ELSE Append(text, "."))

\* RuleEngine._final_clean
FinalClean(text) ==
    IF text = << >> THEN text
    ELSE With(FinalCleanBefore(text), LAMBDA before :
         With(Protect(before, FinalCleanMatches(before), FinalPreservedPrefix), LAMBDA p :
         With(FinalCleanRewrites(p.text), LAMBDA rewritten :
         With(Restore(rewritten, p.map), LAMBDA restored :
         Strip(AddFinalPeriod(restored))))))

(***************************************************************************)
(* RuleEngine.clean.  A rule engine's configuration is the value of        *)
(* self.config.get("filler_words", []): the list the engine removes.       *)
(***************************************************************************)
\* a clean whose conservative mode removes fillers as the standard mode does
ModeCleanRemovingFillers(text, mode, filler_words) ==
    CASE mode \in { "conservative", "standard" } -> StandardClean(text, filler_words)
      [] mode = "rewrite" -> RewriteClean(text, filler_words)
      [] OTHER -> text

\* lines 91-96: the mode-specific stage; any other mode leaves the text
ModeClean(text, mode, filler_words) ==
    CASE mode = "conservative" -> ConservativeClean(text)
      [] mode = "standard" -> StandardClean(text, filler_words)
      [] mode = "rewrite" -> RewriteClean(text, filler_words)
      [] OTHER -> text

\* RuleEngine.clean
RuleClean(text, mode, filler_words) ==
    IF IsBlank(text) THEN << >>
    ELSE With(PreClean(text), LAMBDA t1 :
         With(ModeClean(t1, mode, filler_words), LAMBDA t2 :
         With(FinalClean(t2), LAMBDA t3 :
         Strip(t3))))

(***************************************************************************)
(* Configuration: a Python dict is a function whose domain is the set of   *)
(* keys that are present.                                                  *)
(***************************************************************************)
\* dict.get(key, default)
Get(d, key, default) == IF key \in DOMAIN d THEN d[key] ELSE default

\* {}
EmptyDict == [ k \in {} |-> TRUE ]

\* the dict d, without the keys that are not in K
Restrict(d, K) == [ k \in K |-> d[k] ]

\* the dict d after d[key] = value
SetItem(d, key, value) ==
    [ k \in DOMAIN d \cup { key } |-> IF k = key THEN value ELSE d[k] ]

\* the list CleanupManager._initialize_engines passes when cleanup.filler_words
\* is absent (manager.py lines 30-48)
DefaultFillerWords ==
    << << "u", "m" >>,
       << "u", "h" >>,
       << "e", "r" >>,
       << "a", "h" >>,
       << "l", "i", "k", "e" >>,
       << "y", "o", "u", " ", "k", "n", "o", "w" >>,
       << "i", " ", "m", "e", "a", "n" >>,
       << "s", "o", "r", "t", " ", "o", "f" >>,
       << "k", "i", "n", "d", " ", "o", "f" >>,
       << "r", "i", "g", "h", "t" >>,
       << "y", "e", "a", "h" >>,
       << "y", "e", "p" >>,
       << "y", "u", "p" >>,
       << "h", "m", "m" >>,
       << "w", "e", "l", "l" >>,
       << "a", "n", "y", "w", "a", "y" >>,
       << "b", "a", "s", "i", "c", "a", "l", "l", "y" >> >>

\* the list a rule engine removes: self.config.get("filler_words", [])
\* (rule_engine.py line 318)
RuleFillerWords(rule_config) == Get(rule_config, "filler_words", << >>)

\* RuleEngine(config).clean(text, mode)
RuleEngineClean(rule_config, text, mode) ==
    RuleClean(text, mode, RuleFillerWords(rule_config))

(***************************************************************************)
(* Inputs of the rule engine: the texts of at most MaxTokens tokens, the   *)
(* inputs of the tests and a few longer texts.                             *)
(***************************************************************************)
MaxTokens == 2

Vocabulary ==
    { << "u", "m" >>,
      << "a", " " >>,
      << "h", "i" >>,
      << "," >>,
      << "." >>,
      << " " >>,
      << "i" >>,
      << "B", "c" >>,
      << "t", "h", "e", " " >>,
      << "h", "t", "t", "p", ":", "/", "/", "x", "/", "i" >>,
      << "#", "t" >>,
      << Backtick, "c", Backtick >>,
      << "x", "@", "y", ".", "c", "o" >>,
      << "U+1F600" >>,
      << " ", "m", "e", "a", "n" >>,
      << "k", "i", "n", "d", " ", "o", "f" >> }

RECURSIVE TextsOf(_)
TextsOf(n) ==
    IF n = 0 THEN { << >> }
    ELSE With(TextsOf(n - 1),
              LAMBDA shorter : shorter \cup { t \o w : t \in shorter, w \in Vocabulary })

(***************************************************************************)
(* Inputs of the tests of the rule engine (src/tests/test_cleanup.py).     *)
(***************************************************************************)
\* test_conservative_mode, test_standard_mode, test_rewrite_mode and
\* test_sample_input_1_* (test_cleanup.py lines 35, 368)
SampleInput1 ==
    << "u", "m", " ", "o", "k", "a", "y", " ", "s", "o", " ", "i", " ",
       "t", "h", "i", "n", "k", " ", "w", "e", " ", "s", "h", "o", "u",
       "l", "d", ",", " ", "y", "o", "u", " ", "k", "n", "o", "w", ",",
       " ", "s", "e", "n", "d", " ", "t", "h", "e", " ", "e", "m", "a",
       "i", "l", " ", "t", "o", "m", "o", "r", "r", "o", "w", " ", "m",
       "o", "r", "n", "i", "n", "g", " ", "i", "t", "'", "s", " ", "k",
       "i", "n", "d", " ", "o", "f", " ", "i", "m", "p", "o", "r", "t",
       "a", "n", "t" >>

\* test_filler_removal_safety (line 85)
SampleAlbum ==
    << "t", "h", "e", " ", "a", "l", "b", "u", "m", " ", "w", "a", "s",
       " ", "u", "m", "a", "m", "i", " ", "a", "n", "d", " ", "a", "m",
       "a", "z", "i", "n", "g" >>

\* test_repeated_words_removal (line 94)
SampleRepeatedWords ==
    << "t", "h", "e", " ", "t", "h", "e", " ", "q", "u", "i", "c", "k",
       " ", "b", "r", "o", "w", "n", " ", "f", "o", "x", " ", "j", "u",
       "m", "p", "e", "d", " ", "o", "v", "e", "r", " ", "t", "h", "e",
       " ", "t", "h", "e", " ", "l", "a", "z", "y", " ", "d", "o", "g" >>

\* test_sample_input_3_standard (line 402)
SampleInput3 ==
    << "i", " ", "m", "e", "a", "n", " ", "i", "t", "'", "s", " ", "l",
       "i", "k", "e", " ", "r", "e", "a", "l", "l", "y", " ", "r", "e",
       "a", "l", "l", "y", " ", "s", "l", "o", "w" >>

\* test_sample_input_4_conservative (line 410)
SampleInput4 ==
    << "r", "u", "n", " ", Backtick, "n", "p", "m", " ", "i", "n", "s",
       "t", "a", "l", "l", Backtick, " ", "a", "n", "d", " ", "o", "p",
       "e", "n", " ", "h", "t", "t", "p", "s", ":", "/", "/", "f", "o",
       "o", ".", "b", "a", "r", "/", "d", "o", "c", "s" >>

TestTexts ==
    { SampleInput1, SampleAlbum, SampleRepeatedWords, SampleInput3, SampleInput4 }

\* longer texts of the same tokens, a phrase whose second word is
\* capitalised, and repeated letters
SampleTexts ==
    { << "i", " ", "k", "i", "n", "d", " ", "o", "f", " ", "m", "e", "a",
         "n" >>,
      << "i", " ", "t", "h", "i", "n", "k", " ", "m", "e", "a", "n" >>,
      << "k", "i", "n", "d", " ", "O", "f" >>,
      << Backtick, "c", Backtick, "a", " ", "a" >>,
      << "s", "o", "o", "o", "o", " ", "g", "o", "o", "o", "o", "o", "d" >> }

InputTexts == TextsOf(MaxTokens) \cup TestTexts \cup SampleTexts

Modes == { "conservative", "standard", "rewrite" }

\* the configurations of a RuleEngine: the manager's default list, and a
\* dict without the key "filler_words"
RuleConfigs == { [ filler_words |-> DefaultFillerWords ], EmptyDict }

(***************************************************************************)
(* Python values and the outcome of a call: a value returned, or an        *)
(* exception raised.                                                       *)
(***************************************************************************)
NoneValue == [ vt |-> "none", val |-> << >> ]
StrValue(s) == [ vt |-> "str", val |-> s ]
NumValue == [ vt |-> "num", val |-> << "5" >> ]
ListValue(items) == [ vt |-> "list", val |-> items ]
BoolValue(b) == [ vt |-> "bool", val |-> IF b THEN << "T", "r", "u", "e" >> ELSE << >> ]

\* the truth value of x: "if x:", "if not x:"
Truthy(x) ==
    \/ x.vt \in { "str", "list", "bool" } /\ x.val # << >>
    \/ x.vt = "num"

Return(v) == [ raised |-> FALSE, value |-> v ]
Raise == [ raised |-> TRUE, value |-> NoneValue ]

\* try: attempt / except Exception: handler
TryExcept(attempt, handler) == IF attempt.raised THEN handler ELSE attempt

(***************************************************************************)
(* The backends of the network engines.  A response is what one call of    *)
(* requests.get / requests.post produces: an exception of requests, or a   *)
(* reply with a status and a body.  The body is one of the JSON documents  *)
(* that the engines tell apart.                                            *)
(***************************************************************************)
RequestError == [ kind |-> "error", status |-> 0, shape |-> "", key |-> "", value |-> NoneValue ]
Reply(status, shape, key, value) ==
    [ kind |-> "reply", status |-> status, shape |-> shape, key |-> key, value |-> value ]

\* response.raise_for_status() raises
IsErrorStatus(status) == status >= 400 /\ status < 600

\* timeouts of the requests, in seconds
ProbeTimeout == 5
HttpFallbackProbeTimeout == 2
DefaultHttpTimeout == 10
DefaultLocalLLMTimeout == 30

DefaultLocalLLMEndpoint == << "h", "t", "t", "p", ":", "/", "/", "1", "2", "7", ".", "0", ".", "0", ".", "1", ":", "1", "1", "4", "3", "4" >>

\* the keys HttpEngine._call_endpoint looks up, as texts, for the test
\* "key in result" on a result that is a str
HttpResultKeyTexts == << << "c", "l", "e", "a", "n", "e", "d", "_", "t", "e", "x", "t" >>, << "t", "e", "x", "t" >>, << "r", "e", "s", "u", "l", "t" >>, << "c", "l", "e", "a", "n", "e", "d" >> >>

\* HttpEngine._call_endpoint: what it returns for a response.  Its three
\* except clauses turn every exception into None.
HttpCallEndpoint(resp) ==
    IF resp.kind = "error" THEN NoneValue
    ELSE IF IsErrorStatus(resp.status) THEN NoneValue
    ELSE IF resp.shape = "notjson" THEN NoneValue
    ELSE IF resp.shape = "dict1" THEN resp.value
    ELSE IF resp.shape = "choices" THEN ListValue(<< "message" >>)
    ELSE IF resp.shape = "nochoices" THEN ListValue(<< >>)
    ELSE IF resp.shape = "str"
         THEN IF \E k \in 1..Len(HttpResultKeyTexts) :
                     IndexOfFrom(resp.value.val, 1, HttpResultKeyTexts[k]) # 0
              THEN NoneValue
              ELSE resp.value
    ELSE NoneValue

\* LocalLLMEngine._call_ollama
CallOllama(resp) ==
    IF resp.kind = "error" THEN Raise
    ELSE IF IsErrorStatus(resp.status) THEN Raise
    ELSE IF resp.shape = "dict1" /\ resp.key = "response"
         THEN IF resp.value.vt = "str" THEN Return(StrValue(Strip(resp.value.val)))
              ELSE Raise
    ELSE IF resp.shape \in { "dict1", "dict2", "choices", "nochoices" }
         THEN Return(StrValue(<< >>))
    ELSE Raise

\* LocalLLMEngine._call_openai_compatible
CallOpenaiCompatible(resp) ==
    IF resp.kind = "error" THEN Raise
    ELSE IF IsErrorStatus(resp.status) THEN Raise
    ELSE IF resp.shape = "choices"
         THEN IF resp.value.vt = "str" THEN Return(StrValue(Strip(resp.value.val)))
              ELSE Raise
    ELSE IF resp.shape \in { "dict1", "dict2", "nochoices" } THEN Return(NoneValue)
    ELSE Raise

\* LocalLLMEngine._call_llm
CallLLM(engine_config, resp) ==
    TryExcept(IF IndexOfFrom(Get(engine_config, "local_llm_endpoint",
                                 DefaultLocalLLMEndpoint), 1, << "1", "1", "4", "3", "4" >>) # 0
              THEN CallOllama(resp)
              ELSE CallOpenaiCompatible(resp),
              Return(NoneValue)).value

\* HttpEngine._fallback_clean
HttpFallbackClean(engine_config, text, mode) ==
    Return(StrValue(RuleEngineClean(engine_config, text, mode)))

\* LocalLLMEngine._fallback_clean
LocalLLMFallbackClean(engine_config, text, mode) ==
    Return(StrValue(RuleEngineClean(engine_config, text, mode)))

\* cleaned_text.strip()
StripValue(x) == IF x.vt = "str" THEN Return(StrValue(Strip(x.val))) ELSE Raise

\* HttpEngine.clean, lines 34-45: the try block, for the cleaned_text that
\* _call_endpoint returned; len() raises on a number, strip() on a list
HttpCleanTry(engine_config, text, mode, cleaned_text) ==
    IF Truthy(cleaned_text) THEN StripValue(cleaned_text)
    ELSE HttpFallbackClean(engine_config, text, mode)

\* HttpEngine.clean
HttpEngineClean(engine_config, text, mode, resp) ==
    IF IsBlank(text) THEN Return(StrValue(text))
    ELSE TryExcept(HttpCleanTry(engine_config, text, mode, HttpCallEndpoint(resp)),
                   HttpFallbackClean(engine_config, text, mode))

\* LocalLLMEngine.clean, lines 33-44: the try block, for the cleaned_text
\* that _call_llm returned
LocalLLMCleanTry(engine_config, text, mode, cleaned_text) ==
    IF Truthy(cleaned_text) THEN StripValue(cleaned_text)
    ELSE LocalLLMFallbackClean(engine_config, text, mode)

\* LocalLLMEngine.clean
LocalLLMEngineClean(engine_config, text, mode, resp) ==
    IF IsBlank(text) THEN Return(StrValue(text))
    ELSE TryExcept(LocalLLMCleanTry(engine_config, text, mode, CallLLM(engine_config, resp)),
                   LocalLLMFallbackClean(engine_config, text, mode))

\* LocalLLMEngine.is_available, lines 149-158: the try block
LocalLLMIsAvailableTry(resp) ==
    IF resp.kind = "error" THEN Raise ELSE Return(BoolValue(resp.status = 200))

\* LocalLLMEngine.is_available without its except clause
LocalLLMIsAvailableUncaught(resp) == LocalLLMIsAvailableTry(resp)

\* LocalLLMEngine.is_available
LocalLLMIsAvailable(resp) ==
    TryExcept(LocalLLMIsAvailableTry(resp), Return(BoolValue(FALSE)))

\* HttpEngine.is_available, lines 138-152: the try block; health is the
\* answer of the GET, post the answer of the POST that follows a failed GET
HttpIsAvailableTry(health, post) ==
    IF health.kind = "reply" THEN Return(BoolValue(health.status = 200))
    ELSE IF post.kind = "error" THEN Raise
    ELSE Return(BoolValue(post.status \in { 200, 400, 422 }))

\* HttpEngine.is_available
HttpIsAvailable(health, post) ==
    TryExcept(HttpIsAvailableTry(health, post), Return(BoolValue(FALSE)))

\* RuleEngine.is_available
RuleIsAvailable == Return(BoolValue(TRUE))

(***************************************************************************)
(* CleanupManager: its configuration, its calls, its backends' answers.    *)
(***************************************************************************)
MaxCalls == 2

\* mode=None
PyNone == "None"

\* filler_words of Config.defaults (config.py lines 30-50)
ConfigFillerWords ==
    << << "u", "h" >>, << "u", "m" >>, << "e", "r" >>, << "a", "h" >>, << "l", "i", "k", "e" >>, << "y", "o", "u", " ", "k", "n", "o", "w" >>,
       << "I", " ", "m", "e", "a", "n" >>, << "s", "o", "r", "t", " ", "o", "f" >>, << "k", "i", "n", "d", " ", "o", "f" >>, << "r", "i", "g", "h", "t" >>, << "y", "e", "a", "h" >>,
       << "y", "e", "p" >>, << "y", "u", "p" >>, << "h", "m", "m" >>, << "h", "m", "m" >>, << "w", "e", "l", "l" >>, << "s", "o" >>,
       << "a", "n", "y", "w", "a", "y" >>, << "b", "a", "s", "i", "c", "a", "l", "l", "y" >> >>

\* cleanup.filler_words of a configuration that sets it
CustomFillerWords == << << "u", "m" >>, << "u", "h" >>, << "l", "i", "k", "e" >> >>

\* an endpoint that is not Ollama's
OtherLocalLLMEndpoint == << "h", "t", "t", "p", ":", "/", "/", "1", "2", "7", ".", "0", ".", "0", ".", "1", ":", "8", "0", "8", "0" >>

\* the engine names a configuration may hold: the three registered ones and
\* one that is in no registry
EngineNames == { "rule", "localllm", "http", "cloud" }

CleanupDicts ==
    { Restrict(d, K) :
        d \in [ enabled : BOOLEAN, engine : EngineNames, mode : { "rewrite" },
                filler_words : { CustomFillerWords } ],
        K \in SUBSET { "enabled", "engine", "mode", "filler_words" } }

\* the configurations: with and without the application's top-level
\* filler_words, without the key "cleanup", and, for the localllm engine,
\* with an endpoint that is not Ollama's
Configs ==
    { Restrict([ cleanup |-> c, filler_words |-> ConfigFillerWords ], K) :
        c \in CleanupDicts,
        K \in { { "cleanup" }, { "cleanup", "filler_words" }, { "filler_words" } } }
    \cup
    { [ cleanup |-> c, local_llm_endpoint |-> OtherLocalLLMEndpoint ] :
        c \in { d \in CleanupDicts : Get(d, "engine", "rule") = "localllm" } }

\* values of http_timeout and local_llm_timeout in a configuration, in
\* seconds: one below and one above the timeouts of the probes
ConfiguredTimeouts == { 3, 60 }

\* configurations with settings of the application: each engine name, and
\* the network engines with a configured timeout
SettingsConfigs ==
    { [ cleanup |-> [ engine |-> n ] ] : n \in EngineNames }
    \cup
    { [ cleanup |-> [ engine |-> "http" ], http_timeout |-> t ] :
        t \in ConfiguredTimeouts }
    \cup
    { [ cleanup |-> [ engine |-> "localllm" ], local_llm_timeout |-> t ] :
        t \in ConfiguredTimeouts }

\* the texts handed to clean_text
CallTexts == { << >>, << " " >>, << "u", "m", " ", "h", "i" >>, << "O", "k", "." >> }

\* the modes handed to clean_text
CallModes == { PyNone, "conservative", "standard" }

\* the texts a backend answers with, for a call on the text t
BackendTexts(t) == { << >>, << " " >>, << " ", "H", "i", ".", " " >>, t }

\* the answers to a probe
ProbeResponses ==
    { RequestError } \cup
    { Reply(s, "notjson", "", NoneValue) : s \in { 200, 400, 404 } }

\* the answers to the request of clean, for a call on the text t
CleanResponses(t) ==
    { RequestError,
      Reply(500, "notjson", "", NoneValue),
      Reply(200, "notjson", "", NoneValue),
      Reply(200, "null", "", NoneValue),
      Reply(200, "num", "", NumValue),
      Reply(200, "dict2", "", NoneValue),
      Reply(200, "nochoices", "", NoneValue),
      Reply(200, "choices", "", NumValue),
      Reply(200, "dict1", "cleaned_text", NumValue),
      Reply(200, "dict1", "cleaned_text", NoneValue) }
    \cup { Reply(200, "str", "", StrValue(b)) : b \in BackendTexts(t) }
    \cup { Reply(200, "choices", "", StrValue(b)) : b \in BackendTexts(t) }
    \cup { Reply(200, "dict1", "cleaned_text", StrValue(b)) : b \in BackendTexts(t) }
    \cup { Reply(200, "dict1", k, StrValue(<< " ", "H", "i", ".", " " >>)) :
             k \in { "text", "result", "cleaned", "output", "response" } }
    \cup { Reply(200, "dict1", "response", StrValue(b)) : b \in BackendTexts(t) }

(***************************************************************************)
(* State.  A CleanupManager: its configuration, its registry of engines,   *)
(* the call of clean_text in progress and what that call has done.  A      *)
(* RuleEngine: its configuration, the text it is given and the stage of    *)
(* clean it has reached.                                                   *)
(***************************************************************************)
VARIABLES
    config,        \* CleanupManager.config
    engines,       \* CleanupManager.engines: name -> engine
    pc,            \* where the call of clean_text stands; "raised": it raised
    arg_text,      \* clean_text's argument text
    arg_mode,      \* clean_text's argument mode
    arg_bypass,    \* clean_text's argument bypass
    returned,      \* clean_text's cleaned_text, and the value it returns
    backend,       \* the network engine's cleaned_text: its backend's answer
    outcome,       \* how the network engine's clean(text, mode) ended
    availability,  \* how the selected engine's is_available() ended
    log,           \* the calls on registered engines and the requests, this call
    requests,      \* the number of network requests since construction
    calls,         \* the number of calls of clean_text
    input,         \* the text given to the RuleEngine
    rconfig,       \* RuleEngine.config
    stage,         \* the stage of RuleEngine.clean that has run
    rmode,         \* the mode of RuleEngine.clean
    cur,           \* the text after that stage
    prev,          \* the text before that stage
    preserved,     \* the stage's map from placeholder to protected segment
    threads,       \* the locals of the calls of clean that threads make
    toggles        \* the number of runs of the tray's _toggle_smart_cleanup

mvars == << config, engines, pc, arg_text, arg_mode, arg_bypass, returned,
            backend, outcome, availability, log, requests, calls >>
rvars == << input, rconfig, stage, rmode, cur, prev, preserved >>
tvars == << threads, toggles >>
vars == << config, engines, pc, arg_text, arg_mode, arg_bypass, returned,
           backend, outcome, availability, log, requests, calls,
           input, rconfig, stage, rmode, cur, prev, preserved, threads, toggles >>

\* CleanupManager._initialize_engines.  The rule engine gets a dict of its
\* own; the network engines get self.config itself, not a copy.
InitializeEngines(cfg) ==
    [ rule |-> [ own |-> TRUE,
                 config |-> [ filler_words |->
                                Get(Get(cfg, "cleanup", EmptyDict), "filler_words",
                                    DefaultFillerWords) ] ],
      localllm |-> [ own |-> FALSE, config |-> EmptyDict ],
      http |-> [ own |-> FALSE, config |-> EmptyDict ] ]

\* no RuleEngine under test
RuleIdle ==
    /\ input = << >>
    /\ rconfig = EmptyDict
    /\ stage = "none"
    /\ rmode = ""
    /\ cur = << >>
    /\ prev = << >>
    /\ preserved = << >>

\* no thread calls a RuleEngine
ThreadsIdle == threads = << >>

\* the tray menu has not been used
TrayIdle == toggles = 0

\* no CleanupManager under test
ManagerIdle ==
    /\ config = EmptyDict
    /\ engines = EmptyDict
    /\ pc = "none"
    /\ arg_text = << >>
    /\ arg_mode = PyNone
    /\ arg_bypass = FALSE
    /\ returned = NoneValue
    /\ backend = NoneValue
    /\ outcome = Return(NoneValue)
    /\ availability = Return(NoneValue)
    /\ log = << >>
    /\ requests = 0
    /\ calls = 0

\* CleanupManager(config)
Init ==
    /\ config \in Configs
    /\ engines = InitializeEngines(config)
    /\ pc = "idle"
    /\ arg_text = << >>
    /\ arg_mode = PyNone
    /\ arg_bypass = FALSE
    /\ returned = NoneValue
    /\ backend = NoneValue
    /\ outcome = Return(NoneValue)
    /\ availability = Return(NoneValue)
    /\ log = << >>
    /\ requests = 0
    /\ calls = 0
    /\ RuleIdle
    /\ ThreadsIdle
    /\ TrayIdle

\* CleanupManager(config) for a configuration with settings
InitSettings ==
    /\ config \in SettingsConfigs
    /\ engines = InitializeEngines(config)
    /\ pc = "idle"
    /\ arg_text = << >>
    /\ arg_mode = PyNone
    /\ arg_bypass = FALSE
    /\ returned = NoneValue
    /\ backend = NoneValue
    /\ outcome = Return(NoneValue)
    /\ availability = Return(NoneValue)
    /\ log = << >>
    /\ requests = 0
    /\ calls = 0
    /\ RuleIdle
    /\ ThreadsIdle
    /\ TrayIdle

\* the events of the log
Called(op, engine, mode) == [ op |-> op, engine |-> engine, mode |-> mode, timeout |-> 0 ]
Requested(method, engine, timeout) ==
    [ op |-> method, engine |-> engine, mode |-> "", timeout |-> timeout ]

\* self.engines[name].config
EngineConfig(name) ==
    IF engines[name].own THEN engines[name].config ELSE config

\* self.config.get("cleanup", {})
CleanupConfig == Get(config, "cleanup", EmptyDict)

\* engine_name with "http" as the default of cleanup_config.get("engine", ...)
EngineNameDefaultHttp == Get(CleanupConfig, "engine", "http")

\* engine_name of clean_text
EngineName == Get(CleanupConfig, "engine", "rule")

\* the mode with the configured mode taking precedence over the argument
ResolvedModeConfigFirst ==
    Get(CleanupConfig, "mode", IF arg_mode = PyNone THEN "standard" ELSE arg_mode)

\* the mode clean_text hands to _try_engine: mode, the configured mode when
\* mode is None, "standard" when that is empty
ResolvedMode ==
    LET m == IF arg_mode = PyNone THEN Get(CleanupConfig, "mode", "standard")
             ELSE arg_mode
    IN  IF m = "" \/ m = PyNone THEN "standard" ELSE m

\* the test of line 90 without "bypass or"
SkipsCleanupOnBlankOnly(text, bypass) == IsBlank(text)

\* "if bypass or not text or not text.strip()" (manager.py line 90)
SkipsCleanup(text, bypass) == bypass \/ IsBlank(text)

\* the test of line 94 reading the flat key "cleanup.enabled" that the tray
\* menu writes, in place of the key "enabled"
CleanupEnabledByFlatKey(cleanup_config) == Get(cleanup_config, "cleanup.enabled", TRUE)

\* "if not cleanup_config.get('enabled', True)" (manager.py line 94), negated
CleanupEnabled(cleanup_config) == Get(cleanup_config, "enabled", TRUE)

\* clean_text, up to the call of _try_engine(engine_name, ...)
CleanText(t, m, b) ==
    /\ pc \in { "idle", "done", "raised" }
    /\ calls < MaxCalls
    /\ calls' = calls + 1
    /\ arg_text' = t
    /\ arg_mode' = m
    /\ arg_bypass' = b
    /\ log' = << >>
    /\ backend' = NoneValue
    /\ outcome' = Return(NoneValue)
    /\ availability' = Return(NoneValue)
    /\ IF SkipsCleanup(t, b)
       THEN pc' = "done" /\ returned' = StrValue(t)
       ELSE IF ~CleanupEnabled(CleanupConfig)
            THEN pc' = "done" /\ returned' = StrValue(t)
            ELSE pc' = "try" /\ returned' = NoneValue
    /\ UNCHANGED << config, engines, requests >>
    /\ UNCHANGED rvars
    /\ UNCHANGED tvars

\* _try_engine(engine_name, ...): the registry has no such engine
TryEngineMissing ==
    /\ pc = "try"
    /\ EngineName \notin DOMAIN engines
    /\ returned' = StrValue(arg_text)
    /\ pc' = "tried"
    /\ UNCHANGED << config, engines, arg_text, arg_mode, arg_bypass, backend,
                    outcome, availability, log, requests, calls >>
    /\ UNCHANGED rvars
    /\ UNCHANGED tvars

\* _try_engine without the test of line 131: the engine's answer is ignored
AfterIsAvailableIgnored(available) ==
    IF available.raised THEN pc' = "raised" /\ returned' = NoneValue
    ELSE pc' = "clean" /\ returned' = returned

\* _try_engine, lines 131-133, for the outcome of engine.is_available():
\* an exception leaves _try_engine and clean_text
AfterIsAvailable(available) ==
    IF available.raised THEN pc' = "raised" /\ returned' = NoneValue
    ELSE IF ~Truthy(available.value) THEN pc' = "tried" /\ returned' = StrValue(arg_text)
    ELSE pc' = "clean" /\ returned' = returned

\* _try_engine, lines 135-139, for the outcome of engine.clean(text, mode)
AfterClean(cleaned) ==
    TryExcept(cleaned, Return(StrValue(arg_text))).value

\* _try_engine(engine_name, ...): RuleEngine.is_available
TryRuleIsAvailable ==
    /\ pc = "try"
    /\ EngineName = "rule"
    /\ log' = Append(log, Called("is_available", "rule", ""))
    /\ availability' = RuleIsAvailable
    /\ AfterIsAvailable(availability')
    /\ UNCHANGED << config, engines, arg_text, arg_mode, arg_bypass,
                    backend, outcome, requests, calls >>
    /\ UNCHANGED rvars
    /\ UNCHANGED tvars

\* _try_engine(engine_name, ...): LocalLLMEngine.is_available, whose GET is
\* answered by resp
TryLocalLLMIsAvailable(resp) ==
    /\ pc = "try"
    /\ EngineName = "localllm"
    /\ log' = log \o << Called("is_available", "localllm", ""),
                        Requested("GET", "localllm", ProbeTimeout) >>
    /\ requests' = requests + 1
    /\ availability' = LocalLLMIsAvailable(resp)
    /\ AfterIsAvailable(availability')
    /\ UNCHANGED << config, engines, arg_text, arg_mode, arg_bypass, backend, outcome,
                    calls >>
    /\ UNCHANGED rvars
    /\ UNCHANGED tvars

\* _try_engine(engine_name, ...): HttpEngine.is_available, whose GET is
\* answered by health and whose POST, sent when the GET raised, by post
TryHttpIsAvailable(health, post) ==
    /\ pc = "try"
    /\ EngineName = "http"
    /\ log' = log \o << Called("is_available", "http", ""),
                        Requested("GET", "http", ProbeTimeout) >>
                  \o IF health.kind = "error"
                     THEN << Requested("POST", "http", HttpFallbackProbeTimeout) >>
                     ELSE << >>
    /\ requests' = requests + (IF health.kind = "error" THEN 2 ELSE 1)
    /\ availability' = HttpIsAvailable(health, post)
    /\ AfterIsAvailable(availability')
    /\ UNCHANGED << config, engines, arg_text, arg_mode, arg_bypass, backend, outcome,
                    calls >>
    /\ UNCHANGED rvars
    /\ UNCHANGED tvars

\* clean(text, mode) of the registered rule engine
RegisteredRuleClean(text, mode) ==
    Return(StrValue(RuleEngineClean(EngineConfig("rule"), text, mode)))

\* _try_engine(engine_name, ...): RuleEngine.clean
TryRuleClean ==
    /\ pc = "clean"
    /\ EngineName = "rule"
    /\ log' = Append(log, Called("clean", "rule", ResolvedMode))
    /\ returned' = AfterClean(RegisteredRuleClean(arg_text, ResolvedMode))
    /\ pc' = "tried"
    /\ UNCHANGED << config, engines, arg_text, arg_mode, arg_bypass, backend,
                    outcome, availability, requests, calls >>
    /\ UNCHANGED rvars
    /\ UNCHANGED tvars

\* _try_engine(engine_name, ...): LocalLLMEngine.clean, whose POST is
\* answered by resp
TryLocalLLMClean(resp) ==
    /\ pc = "clean"
    /\ EngineName = "localllm"
    /\ log' = log \o << Called("clean", "localllm", ResolvedMode),
                        Requested("POST", "localllm",
                                  Get(EngineConfig("localllm"), "local_llm_timeout",
                                      DefaultLocalLLMTimeout)) >>
    /\ requests' = requests + 1
    /\ backend' = CallLLM(EngineConfig("localllm"), resp)
    /\ outcome' = LocalLLMEngineClean(EngineConfig("localllm"), arg_text, ResolvedMode, resp)
    /\ returned' = AfterClean(outcome')
    /\ pc' = "tried"
    /\ UNCHANGED << config, engines, arg_text, arg_mode, arg_bypass, availability, calls >>
    /\ UNCHANGED rvars
    /\ UNCHANGED tvars

\* _try_engine(engine_name, ...): HttpEngine.clean, whose POST is answered
\* by resp
TryHttpClean(resp) ==
    /\ pc = "clean"
    /\ EngineName = "http"
    /\ log' = log \o << Called("clean", "http", ResolvedMode),
                        Requested("POST", "http",
                                  Get(EngineConfig("http"), "http_timeout",
                                      DefaultHttpTimeout)) >>
    /\ requests' = requests + 1
    /\ backend' = HttpCallEndpoint(resp)
    /\ outcome' = HttpEngineClean(EngineConfig("http"), arg_text, ResolvedMode, resp)
    /\ returned' = AfterClean(outcome')
    /\ pc' = "tried"
    /\ UNCHANGED << config, engines, arg_text, arg_mode, arg_bypass, availability, calls >>
    /\ UNCHANGED rvars
    /\ UNCHANGED tvars

\* the test of line 110 without "cleaned_text == text and"
PrimaryNotRule(cleaned_text, text, engine_name) == engine_name # "rule"

\* "if cleaned_text == text and engine_name != 'rule'" (manager.py line 110)
PrimaryFailed(cleaned_text, text, engine_name) ==
    cleaned_text = text /\ engine_name # "rule"

\* clean_text after the primary engine failed: _try_engine("rule", ...),
\* the return
FallbackToRule ==
    /\ pc = "tried"
    /\ PrimaryFailed(returned, StrValue(arg_text), EngineName)
    /\ log' = log \o << Called("is_available", "rule", ""),
                        Called("clean", "rule", ResolvedMode) >>
    /\ returned' = AfterClean(RegisteredRuleClean(arg_text, ResolvedMode))
    /\ pc' = "done"
    /\ UNCHANGED << config, engines, arg_text, arg_mode, arg_bypass, backend,
                    outcome, availability, requests, calls >>
    /\ UNCHANGED rvars
    /\ UNCHANGED tvars

\* clean_text after the primary engine answered: the return
ReturnCleaned ==
    /\ pc = "tried"
    /\ ~PrimaryFailed(returned, StrValue(arg_text), EngineName)
    /\ pc' = "done"
    /\ UNCHANGED << config, engines, arg_text, arg_mode, arg_bypass, returned,
                    backend, outcome, availability, log, requests, calls >>
    /\ UNCHANGED rvars
    /\ UNCHANGED tvars

Next ==
    \/ \E t \in CallTexts, m \in CallModes, b \in BOOLEAN : CleanText(t, m, b)
    \/ TryEngineMissing
    \/ TryRuleIsAvailable
    \/ \E resp \in ProbeResponses : TryLocalLLMIsAvailable(resp)
    \/ \E health \in ProbeResponses, post \in ProbeResponses :
          TryHttpIsAvailable(health, post)
    \/ TryRuleClean
    \/ \E resp \in CleanResponses(arg_text) : TryLocalLLMClean(resp)
    \/ \E resp \in CleanResponses(arg_text) : TryHttpClean(resp)
    \/ FallbackToRule
    \/ ReturnCleaned

Spec == Init /\ [][Next]_vars

\* the runs of the tray's _toggle_smart_cleanup
MaxToggles == 2

\* Config.get("cleanup.enabled", True) (config.py lines 63-65): what the
\* check of the menu item "Smart Cleanup" shows (tray_app.py line 110)
MenuChecked == Get(config, "cleanup.enabled", TRUE)

\* ParratorTrayApp._toggle_smart_cleanup (tray_app.py lines 372-385), run
\* between two calls of clean_text.  Config.set stores the new state under
\* the key "cleanup.enabled" of the dict that the manager holds as
\* self.config (tray_app.py line 35) and saves the file.  Enabling reads
\* get_engine_status(), which probes both network engines: one GET each,
\* and HttpEngine's POST when its GET, answered by health, raised.
ToggleSmartCleanup(health) ==
    /\ pc \in { "idle", "done", "raised" }
    /\ toggles < MaxToggles
    /\ toggles' = toggles + 1
    /\ config' = SetItem(config, "cleanup.enabled", ~MenuChecked)
    /\ requests' = IF ~MenuChecked
                   THEN requests + (IF health.kind = "error" THEN 3 ELSE 2)
                   ELSE requests
    /\ UNCHANGED << engines, pc, arg_text, arg_mode, arg_bypass, returned,
                    backend, outcome, availability, log, calls >>
    /\ UNCHANGED rvars
    /\ UNCHANGED threads

\* the manager of a configuration with settings, in the tray application
NextSettings ==
    \/ Next
    \/ \E health \in ProbeResponses : ToggleSmartCleanup(health)

SpecSettings == InitSettings /\ [][NextSettings]_vars

(***************************************************************************)
(* RuleEngine.clean, stage by stage, and the stages of _final_clean and of *)
(* the placeholder loops called on their own.                              *)
(***************************************************************************)
\* RuleEngine(config), about to be called on a text
InitRule ==
    /\ ManagerIdle
    /\ ThreadsIdle
    /\ TrayIdle
    /\ input \in InputTexts
    /\ rconfig \in RuleConfigs
    /\ stage = "start"
    /\ rmode = ""
    /\ cur = input
    /\ prev = << >>
    /\ preserved = << >>

\* clean(text, mode), lines 81-88: the blank text returns "", any other text
\* goes through _pre_clean
CleanPreClean(m) ==
    /\ stage = "start"
    /\ rmode' = m
    /\ prev' = cur
    /\ IF IsBlank(cur)
       THEN cur' = << >> /\ stage' = "returned"
       ELSE cur' = PreClean(cur) /\ stage' = "pre"
    /\ UNCHANGED << input, rconfig, preserved >>
    /\ UNCHANGED mvars
    /\ UNCHANGED tvars

\* clean, lines 90-96: the stage of the mode
CleanModeClean ==
    /\ stage = "pre"
    /\ prev' = cur
    /\ cur' = ModeClean(cur, rmode, RuleFillerWords(rconfig))
    /\ stage' = "mode"
    /\ UNCHANGED << input, rconfig, rmode, preserved >>
    /\ UNCHANGED mvars
    /\ UNCHANGED tvars

\* a clean that goes from the stage of the mode to the return without
\* _final_clean
CleanFinalCleanSkipped ==
    /\ stage = "mode"
    /\ prev' = cur
    /\ cur' = cur
    /\ stage' = "final"
    /\ UNCHANGED << input, rconfig, rmode, preserved >>
    /\ UNCHANGED mvars
    /\ UNCHANGED tvars

\* clean, line 99: _final_clean
CleanFinalClean ==
    /\ stage = "mode"
    /\ prev' = cur
    /\ cur' = FinalClean(cur)
    /\ stage' = "final"
    /\ UNCHANGED << input, rconfig, rmode, preserved >>
    /\ UNCHANGED mvars
    /\ UNCHANGED tvars

\* clean, line 110: return text.strip()
CleanReturn ==
    /\ stage = "final"
    /\ prev' = cur
    /\ cur' = Strip(cur)
    /\ stage' = "returned"
    /\ UNCHANGED << input, rconfig, rmode, preserved >>
    /\ UNCHANGED mvars
    /\ UNCHANGED tvars

\* _remove_filler_words_safe(text), called on the text itself with the
\* engine's filler_words
CallRemoveFillerWordsSafe ==
    /\ stage = "start"
    /\ prev' = cur
    /\ cur' = RemoveFillerWordsSafe(cur, RuleFillerWords(rconfig))
    /\ stage' = "fillers_removed"
    /\ UNCHANGED << input, rconfig, rmode, preserved >>
    /\ UNCHANGED mvars
    /\ UNCHANGED tvars

\* _sentence_capitalization(text), called on the text itself
CallSentenceCapitalization ==
    /\ stage = "start"
    /\ prev' = cur
    /\ cur' = SentenceCapitalization(cur)
    /\ stage' = "capitalized"
    /\ UNCHANGED << input, rconfig, rmode, preserved >>
    /\ UNCHANGED mvars
    /\ UNCHANGED tvars

\* _final_clean(text), called on the text itself
CallFinalClean ==
    /\ stage = "start"
    /\ prev' = cur
    /\ cur' = FinalClean(cur)
    /\ stage' = "final_once"
    /\ UNCHANGED << input, rconfig, rmode, preserved >>
    /\ UNCHANGED mvars
    /\ UNCHANGED tvars

\* _final_clean, called on its own result
CallFinalCleanAgain ==
    /\ stage = "final_once"
    /\ prev' = cur
    /\ cur' = FinalClean(cur)
    /\ stage' = "final_twice"
    /\ UNCHANGED << input, rconfig, rmode, preserved >>
    /\ UNCHANGED mvars
    /\ UNCHANGED tvars

\* the protect loop of _pre_clean (lines 117-141)
PreCleanProtect ==
    /\ stage = "start"
    /\ prev' = cur
    /\ cur' = Protect(cur, PreCleanMatches(cur), PreservedPrefix).text
    /\ preserved' = Protect(cur, PreCleanMatches(cur), PreservedPrefix).map
    /\ stage' = "pre_protected"
    /\ UNCHANGED << input, rconfig, rmode >>
    /\ UNCHANGED mvars
    /\ UNCHANGED tvars

\* the protect loop of _final_clean (lines 226-239)
FinalCleanProtect ==
    /\ stage = "start"
    /\ prev' = cur
    /\ cur' = Protect(cur, FinalCleanMatches(cur), FinalPreservedPrefix).text
    /\ preserved' = Protect(cur, FinalCleanMatches(cur), FinalPreservedPrefix).map
    /\ stage' = "final_protected"
    /\ UNCHANGED << input, rconfig, rmode >>
    /\ UNCHANGED mvars
    /\ UNCHANGED tvars

\* the rewrites of _pre_clean on the text with its placeholders
\* (lines 143-154)
PreCleanRewrite ==
    /\ stage = "pre_protected"
    /\ prev' = cur
    /\ cur' = PreCleanRewrites(cur)
    /\ stage' = "pre_rewritten"
    /\ UNCHANGED << input, rconfig, rmode, preserved >>
    /\ UNCHANGED mvars
    /\ UNCHANGED tvars

\* the rewrites of _final_clean on the text with its placeholders
\* (lines 242-265)
FinalCleanRewrite ==
    /\ stage = "final_protected"
    /\ prev' = cur
    /\ cur' = FinalCleanRewrites(cur)
    /\ stage' = "final_rewritten"
    /\ UNCHANGED << input, rconfig, rmode, preserved >>
    /\ UNCHANGED mvars
    /\ UNCHANGED tvars

\* the restore loop of _pre_clean (lines 156-158)
PreCleanRestore ==
    /\ stage = "pre_protected"
    /\ prev' = cur
    /\ cur' = Restore(cur, preserved)
    /\ stage' = "pre_restored"
    /\ UNCHANGED << input, rconfig, rmode, preserved >>
    /\ UNCHANGED mvars
    /\ UNCHANGED tvars

\* the restore loop of _final_clean (lines 267-269)
FinalCleanRestore ==
    /\ stage = "final_protected"
    /\ prev' = cur
    /\ cur' = Restore(cur, preserved)
    /\ stage' = "final_restored"
    /\ UNCHANGED << input, rconfig, rmode, preserved >>
    /\ UNCHANGED mvars
    /\ UNCHANGED tvars

NextRule ==
    \/ \E m \in Modes : CleanPreClean(m)
    \/ CleanModeClean
    \/ CleanFinalClean
    \/ CleanReturn
    \/ CallRemoveFillerWordsSafe
    \/ CallSentenceCapitalization
    \/ CallFinalClean
    \/ CallFinalCleanAgain
    \/ PreCleanProtect
    \/ FinalCleanProtect
    \/ PreCleanRewrite
    \/ FinalCleanRewrite
    \/ PreCleanRestore
    \/ FinalCleanRestore

SpecRule == InitRule /\ [][NextRule]_vars

(***************************************************************************)
(* Threads that call clean(text, mode) on one RuleEngine at the same time. *)
(* The instance is rconfig, with the patterns compiled from it             *)
(* (rule_engine.py lines 17-77); text, mode and the placeholder maps are   *)
(* locals of each call.  A thread runs clean stage by stage and the other  *)
(* threads run between its stages.                                         *)
(***************************************************************************)
MaxThreads == 2

Threads == 1..MaxThreads

\* the texts the threads hand to clean
ThreadTexts == { << " " >>, << "u", "m", " ", "h", "i" >>, << "O", "k", "." >> }

\* the modes the threads hand to clean
ThreadModes == { "conservative", "standard" }

\* the locals of a thread: the arguments of its call, the stage of clean it
\* has run and its variable text
ThreadLocals(text, mode, at, cur_text) ==
    [ text |-> text, mode |-> mode, at |-> at, cur |-> cur_text ]

\* a thread that has not called clean
NoCall == ThreadLocals(<< >>, "", "idle", << >>)

\* RuleEngine(config) shared by the threads
InitThreads ==
    /\ ManagerIdle
    /\ input = << >>
    /\ rconfig \in RuleConfigs
    /\ stage = "none"
    /\ rmode = ""
    /\ cur = << >>
    /\ prev = << >>
    /\ preserved = << >>
    /\ threads = [ t \in Threads |-> NoCall ]
    /\ TrayIdle

\* thread t calls clean(text, m), lines 81-88: its first call, or the next
\* one after a call returned
ThreadClean(t, text, m) ==
    /\ threads[t].at \in { "idle", "returned" }
    /\ threads' = [ threads EXCEPT ![t] =
                      IF IsBlank(text) THEN ThreadLocals(text, m, "returned", << >>)
                      ELSE ThreadLocals(text, m, "pre", PreClean(text)) ]
    /\ UNCHANGED mvars
    /\ UNCHANGED rvars
    /\ UNCHANGED toggles

\* a stage of the mode that works on a text kept in the instance: the text
\* of whichever thread wrote it last
ThreadModeCleanOnInstanceText(t) ==
    /\ threads[t].at = "pre"
    /\ \E u \in Threads :
          /\ threads[u].at = "pre"
          /\ threads' = [ threads EXCEPT ![t] =
                            ThreadLocals(threads[t].text, threads[t].mode, "mode",
                                         ModeClean(threads[u].cur, threads[t].mode,
                                                   RuleFillerWords(rconfig))) ]
    /\ UNCHANGED mvars
    /\ UNCHANGED rvars
    /\ UNCHANGED toggles

\* thread t, clean lines 90-96: the stage of the mode, on its local text
ThreadModeClean(t) ==
    /\ threads[t].at = "pre"
    /\ threads' = [ threads EXCEPT ![t] =
                      ThreadLocals(threads[t].text, threads[t].mode, "mode",
                                   ModeClean(threads[t].cur, threads[t].mode,
                                             RuleFillerWords(rconfig))) ]
    /\ UNCHANGED mvars
    /\ UNCHANGED rvars
    /\ UNCHANGED toggles

\* thread t, clean line 99: _final_clean
ThreadFinalClean(t) ==
    /\ threads[t].at = "mode"
    /\ threads' = [ threads EXCEPT ![t] =
                      ThreadLocals(threads[t].text, threads[t].mode, "final",
                                   FinalClean(threads[t].cur)) ]
    /\ UNCHANGED mvars
    /\ UNCHANGED rvars
    /\ UNCHANGED toggles

\* thread t, clean line 110: return text.strip()
ThreadReturn(t) ==
    /\ threads[t].at = "final"
    /\ threads' = [ threads EXCEPT ![t] =
                      ThreadLocals(threads[t].text, threads[t].mode, "returned",
                                   Strip(threads[t].cur)) ]
    /\ UNCHANGED mvars
    /\ UNCHANGED rvars
    /\ UNCHANGED toggles

NextThreads ==
    \/ \E t \in Threads, text \in ThreadTexts, m \in ThreadModes : ThreadClean(t, text, m)
    \/ \E t \in Threads : ThreadModeClean(t)
    \/ \E t \in Threads : ThreadFinalClean(t)
    \/ \E t \in Threads : ThreadReturn(t)

SpecThreads == InitThreads /\ [][NextThreads]_vars

(***************************************************************************)
(* Properties of CleanupManager.clean_text, checked under Spec.            *)
(***************************************************************************)
\* the calls of is_available and clean that the log of this call holds
EngineCalls == { i \in DOMAIN log : log[i].op \in { "is_available", "clean" } }

\* the network requests that the log of this call holds
NetworkRequests == { i \in DOMAIN log : log[i].op \in { "GET", "POST" } }

\* a call of clean_text has been made and has not returned or raised yet,
\* or it has
InCall == pc \in { "try", "clean", "tried", "done", "raised" }

\* C1: a call of clean_text with bypass true, or with an empty or
\* whitespace-only text, returns exactly the text it was given and calls
\* neither is_available nor clean on any engine, for every mode, every
\* configured engine name and every value of cleanup.enabled.
C1_BypassOrBlankReturnsInput ==
    (InCall /\ (arg_bypass \/ IsBlank(arg_text))) =>
        /\ pc = "done"
        /\ returned = StrValue(arg_text)
        /\ EngineCalls = { }

\* a bypassed call on a non-blank text has returned, with cleanup enabled
\* and the http engine configured
C1_Witness ==
    /\ pc = "done"
    /\ arg_bypass
    /\ ~IsBlank(arg_text)
    /\ arg_mode = "conservative"
    /\ "engine" \in DOMAIN CleanupConfig /\ CleanupConfig.engine = "http"
    /\ "enabled" \in DOMAIN CleanupConfig /\ CleanupConfig.enabled
    /\ returned = StrValue(arg_text)

\* C2: with cleanup.enabled = false in the configuration, clean_text(x)
\* returns x unchanged for every text, mode and configured engine, and no
\* engine's is_available or clean is invoked.
C2_DisabledReturnsInput ==
    (InCall /\ "enabled" \in DOMAIN CleanupConfig /\ CleanupConfig.enabled = FALSE) =>
        /\ pc = "done"
        /\ returned = StrValue(arg_text)
        /\ EngineCalls = { }

\* a call that is not bypassed, on a non-blank text, has returned with
\* cleanup disabled and the localllm engine configured
C2_Witness ==
    /\ pc = "done"
    /\ ~arg_bypass
    /\ ~IsBlank(arg_text)
    /\ "enabled" \in DOMAIN CleanupConfig /\ CleanupConfig.enabled = FALSE
    /\ "engine" \in DOMAIN CleanupConfig /\ CleanupConfig.engine = "localllm"
    /\ returned = StrValue(arg_text)

\* C3: clean_text never raises and always returns a string, for every
\* configured engine name (rule, localllm, http, a name the registry does
\* not have) and every outcome of the engine's network requests.
C3_NeverRaisesReturnsString ==
    /\ pc # "raised"
    /\ pc = "done" => returned.vt = "str"

\* a call has returned a string after the http engine's clean sent its
\* request and got no usable answer
C3_Witness ==
    /\ pc = "done"
    /\ EngineName = "http"
    /\ \E i \in EngineCalls : log[i].op = "clean" /\ log[i].engine = "http"
    /\ \E i \in NetworkRequests : log[i].op = "POST" /\ log[i].timeout = DefaultHttpTimeout
    /\ backend = NoneValue
    /\ returned.vt = "str"

\* C4: when the configured engine is not "rule" and the primary attempt
\* yields a string equal to the input text, clean_text returns what the
\* registered rule engine's clean(text, mode) returns; when the primary
\* attempt yields a different string, that string is returned and the
\* registered rule engine is not invoked.
C4_FallbackRule ==
    [][ (pc = "tried" /\ pc' = "done" /\ Get(CleanupConfig, "engine", "rule") # "rule") =>
            IF returned = StrValue(arg_text)
            THEN returned' = StrValue(RuleEngineClean(engines["rule"].config, arg_text,
                                                      ResolvedMode))
            ELSE returned' = returned /\ log' = log ]_vars

\* a call has returned the rule engine's result after the http engine's
\* clean answered with the input text itself
C4_Witness ==
    /\ pc = "done"
    /\ EngineName = "http"
    /\ backend = StrValue(arg_text)
    /\ \E i \in EngineCalls : log[i].op = "clean" /\ log[i].engine = "rule"
    /\ returned # StrValue(arg_text)

\* the network engine's clean has run in this call
NetworkCleanRan ==
    \E i \in EngineCalls : log[i].op = "clean" /\ log[i].engine \in { "localllm", "http" }

\* the backend's answer holds a non-empty cleaned string: a string that is
\* neither empty nor whitespace-only
HasCleanedString(x) == x.vt = "str" /\ ~IsBlank(x.val)

\* C5: LocalLLMEngine.clean and HttpEngine.clean, called with a non-blank
\* text, return exactly what RuleEngine.clean(text, mode) returns whenever
\* the request raises, times out, answers with an error status or answers
\* with a response that holds no non-empty cleaned string; they never
\* raise and never return the input or the empty string in its place.
C5_NetworkEngineFallsBackToRuleEngine ==
    (pc = "tried" /\ NetworkCleanRan /\ ~HasCleanedString(backend)) =>
        outcome = Return(StrValue(RuleEngineClean(config, arg_text, ResolvedMode)))

\* C10: with cleanup.engine absent or equal to "rule", the construction of
\* the manager and every sequence of calls of clean_text issue no network
\* request, and each call on a non-blank text with cleanup enabled returns
\* exactly what the registered rule engine's clean(text, mode) returns.
C10_DefaultPathNoNetwork ==
    Get(CleanupConfig, "engine", "rule") = "rule" =>
        /\ requests = 0
        /\ NetworkRequests = { }
        /\ (pc = "done" /\ ~IsBlank(arg_text) /\ Get(CleanupConfig, "enabled", TRUE)) =>
              returned = StrValue(RuleEngineClean(engines["rule"].config, arg_text,
                                                  ResolvedMode))

\* C10, for the calls that are not bypassed: with cleanup.engine absent or
\* equal to "rule", no network request is issued, and each call with bypass
\* false on a non-blank text with cleanup enabled returns exactly what the
\* registered rule engine's clean(text, mode) returns.
C10_DefaultPathNoNetworkUnlessBypassed ==
    Get(CleanupConfig, "engine", "rule") = "rule" =>
        /\ requests = 0
        /\ NetworkRequests = { }
        /\ (pc = "done" /\ ~arg_bypass /\ ~IsBlank(arg_text)
                /\ Get(CleanupConfig, "enabled", TRUE)) =>
              returned = StrValue(RuleEngineClean(engines["rule"].config, arg_text,
                                                  ResolvedMode))

\* the second call of a manager whose configuration names no engine has
\* returned the rule engine's result, which is not the text it was given
C10_Witness ==
    /\ pc = "done"
    /\ calls = MaxCalls
    /\ "engine" \notin DOMAIN CleanupConfig
    /\ ~arg_bypass
    /\ ~IsBlank(arg_text)
    /\ Get(CleanupConfig, "enabled", TRUE)
    /\ \E i \in EngineCalls : log[i].op = "clean" /\ log[i].engine = "rule"
    /\ returned # StrValue(arg_text)
    /\ requests = 0

(***************************************************************************)
(* Properties of the RuleEngine, checked under SpecRule.                   *)
(***************************************************************************)
\* s[i..e-1] occurs in t
Occurs(s, m, t) == IndexOfFrom(t, 1, Slice(s, m[1], m[2])) # 0

\* C6: every URL, every email address and every backtick-delimited code
\* span of the input occurs as the identical substring in what
\* RuleEngine.clean returns, in each of the three modes.
C6_PreservedSpansOccurInOutput ==
    (stage = "returned" /\ rmode \in Modes) =>
        \A k \in DOMAIN FinalCleanMatches(input) :
            Occurs(input, FinalCleanMatches(input)[k], cur)

\* C7: replacing the protected spans by placeholders as _pre_clean does
\* (URL, email, code, hashtag, emoji) and restoring them at once from the
\* placeholder map yields the original text; so does the protection of
\* _final_clean (URL, email, code).
C7_RestoreProtectIsIdentity ==
    stage \in { "pre_restored", "final_restored" } => cur = input

\* C8: _final_clean(_final_clean(t)) = _final_clean(t) for every text t.
C8_FinalCleanIdempotent ==
    stage = "final_twice" => cur = prev

\* C9: for every input and one engine configuration, the result of mode
\* standard is no longer than that of mode conservative, and the result of
\* mode rewrite is no longer than that of mode standard.
C9_MonotonicAggressiveness ==
    /\ (stage = "returned" /\ rmode = "standard") =>
            Len(cur) <= Len(RuleEngineClean(rconfig, input, "conservative"))
    /\ (stage = "returned" /\ rmode = "rewrite") =>
            Len(cur) <= Len(RuleEngineClean(rconfig, input, "standard"))

(***************************************************************************)
(* Mode resolution and the availability gate of clean_text, checked under  *)
(* Spec.                                                                   *)
(***************************************************************************)
\* the mode that the call is to hand to the engines: the argument when one
\* is given, else the configuration's cleanup.mode, else "standard"
ExpectedMode ==
    IF arg_mode # PyNone THEN arg_mode
    ELSE IF "mode" \in DOMAIN CleanupConfig THEN CleanupConfig.mode
    ELSE "standard"

\* C11: the mode clean_text passes to the engine is the explicit mode
\* argument when one is given, even if the configuration names another
\* mode, otherwise the configuration's cleanup.mode, otherwise "standard".
C11_ModeResolution ==
    /\ \A i \in EngineCalls : log[i].op = "clean" => log[i].mode = ExpectedMode
    /\ (pc = "tried" /\ EngineName = "rule"
            /\ \E i \in EngineCalls : log[i].op = "clean") =>
          returned = StrValue(RuleEngineClean(engines["rule"].config, arg_text,
                                              ExpectedMode))

\* the rule engine has cleaned in the mode of the argument, conservative,
\* under a configuration whose cleanup.mode is rewrite, and the result is
\* not the result of mode rewrite
C11_Witness ==
    /\ pc = "done"
    /\ arg_mode = "conservative"
    /\ "mode" \in DOMAIN CleanupConfig /\ CleanupConfig.mode = "rewrite"
    /\ \E i \in EngineCalls :
          log[i].op = "clean" /\ log[i].engine = "rule" /\ log[i].mode = "conservative"
    /\ returned # StrValue(RuleEngineClean(engines["rule"].config, arg_text, "rewrite"))

\* the selected engine is not in the registry
EngineAbsent == EngineName \notin { "rule", "localllm", "http" }

\* the selected engine's is_available() returned false
EngineUnavailable == availability = Return(BoolValue(FALSE))

\* C12: within one call of clean_text the selected engine's is_available()
\* is called before its clean(); when the engine name is absent from the
\* registry or is_available() returned false, that engine's clean() is
\* never called in that call, no error is raised, and the primary attempt
\* yields the input unchanged.
C12_AvailabilityGate ==
    /\ \A i \in EngineCalls :
          log[i].op = "clean" =>
              \E j \in 1..(i - 1) :
                  log[j].op = "is_available" /\ log[j].engine = log[i].engine
    /\ (InCall /\ (EngineAbsent \/ EngineUnavailable)) =>
          /\ pc # "raised"
          /\ \A i \in EngineCalls : ~(log[i].op = "clean" /\ log[i].engine = EngineName)
          /\ pc = "tried" => returned = StrValue(arg_text)

\* the http engine answered is_available() with false after both of its
\* probes, and the call has returned without a clean of the http engine
C12_Witness ==
    /\ pc = "done"
    /\ EngineName = "http"
    /\ EngineUnavailable
    /\ \E i \in NetworkRequests : log[i].op = "POST" /\ log[i].timeout = HttpFallbackProbeTimeout
    /\ \A i \in EngineCalls : ~(log[i].op = "clean" /\ log[i].engine = "http")
    /\ \E i \in EngineCalls : log[i].op = "clean" /\ log[i].engine = "rule"

(***************************************************************************)
(* Fillers and redundant phrases in the modes of the RuleEngine, checked   *)
(* under SpecRule.                                                         *)
(***************************************************************************)
\* the positions at which \b<phrase>\b matches the text under re.IGNORECASE
Occurrences(text, phrase) ==
    { i \in 1..Len(text) : AlternativesMatch(text, i, << phrase >>) # 0 }

\* those of them that are written as the phrase is after their first letter
LowerOccurrences(text, phrase) ==
    { i \in Occurrences(text, phrase) :
        \A k \in 2..Len(phrase) : text[i + k - 1] = phrase[k] }

\* the phrases that _remove_redundant_phrases removes
RedundantPhrases == { RedundantPatterns[n][1] : n \in DOMAIN RedundantPatterns }

\* the fillers that an engine of this configuration removes
ConfiguredFillers(rule_config) ==
    { RuleFillerWords(rule_config)[n] : n \in DOMAIN RuleFillerWords(rule_config) }

\* the text after _pre_clean, for a text that clean does not return at once
PreCleaned == IF IsBlank(input) THEN << >> ELSE PreClean(input)

OutsideSpans(text, i, phrase) ==
    \A k \in DOMAIN PreCleanMatches(text) :
        \/ i + Len(phrase) <= PreCleanMatches(text)[k][1]
        \/ PreCleanMatches(text)[k][2] <= i

\* C14: in mode standard or rewrite, what RuleEngine.clean returns has no
\* whole-word, case-insensitive occurrence of a configured filler outside
\* URL, email, code, hashtag and emoji spans.
C14_NoFillerLeft ==
    (stage = "returned" /\ rmode \in { "standard", "rewrite" }) =>
        \A phrase \in ConfiguredFillers(rconfig) :
            \A i \in Occurrences(cur, phrase) : ~OutsideSpans(cur, i, phrase)

\* the words of a text: its longest runs of letters
WordsOf(text) ==
    { Slice(text, i, RunEnd(text, i, Letter)) :
        i \in { j \in 1..Len(text) :
                  text[j] \in Letter /\ (j = 1 \/ text[j - 1] \notin Letter) } }

\* two words that differ in capitalisation at most
SameWord(v, w) == Len(v) = Len(w) /\ LitAtCI(v, 1, w)

\* the word w stands somewhere in the text, up to capitalisation
ContainsWord(text, w) == \E j \in 1..Len(text) : LitAtCI(text, j, w)

\* a word that the standard mode may rewrite: a word of a configured filler
\* or of a redundant phrase, an article that the a/an rules correct, a word
\* with a letter repeated three times or more (_pre_clean keeps two)
MayBeRewritten(w, rule_config) ==
    \/ \E phrase \in ConfiguredFillers(rule_config) \cup RedundantPhrases :
          \E v \in WordsOf(phrase) : SameWord(v, w)
    \/ SameWord(w, << "a" >>)
    \/ SameWord(w, << "a", "n" >>)
    \/ \E k \in 1..Len(w) : RepeatedLettersMatch(w, k) # 0

\* C15: in mode standard, every word of the input that is not (a word of) a
\* filler or of a redundant phrase keeps all of its letters in the output,
\* so a filler that is a proper part of a longer word ("um" in "album") is
\* not removed.  A second copy of a duplicated word need not be there, and
\* the words that the a/an and repeated-letter rules rewrite are left out.
C15_WordsKeepTheirLetters ==
    (stage = "returned" /\ rmode = "standard") =>
        \A w \in WordsOf(input) :
            MayBeRewritten(w, rconfig) \/ ContainsWord(cur, w)

\* C16: what _remove_filler_words_safe returns still holds every URL, email
\* address, code span, hashtag and emoji of its input (up to the
\* capitalisation of its sentence fixes): no character inside such a span
\* is deleted, whether a filler lies wholly inside the span or overlaps it.
C16_FillerRemovalKeepsSpans ==
    stage = "fillers_removed" =>
        \A k \in DOMAIN PreCleanMatches(input) :
            ContainsWord(cur, Slice(input, PreCleanMatches(input)[k][1],
                                           PreCleanMatches(input)[k][2]))

\* position i of the text lies inside a URL, an email address or a code span
InsideProtected(text, i) ==
    \E k \in DOMAIN FinalCleanMatches(text) :
        FinalCleanMatches(text)[k][1] <= i /\ i < FinalCleanMatches(text)[k][2]

\* C17: in each of the three modes, a non-empty output of RuleEngine.clean
\* that does not begin inside a URL, an email address or a code span does
\* not begin with a lower-case letter.
C17_LeadingCapital ==
    (stage = "returned" /\ rmode \in Modes /\ cur # << >>
        /\ ~InsideProtected(cur, 1)) => cur[1] \notin Lower

(***************************************************************************)
(* The ends of the output of RuleEngine.clean, checked under SpecRule.     *)
(***************************************************************************)
\* the characters after which _final_clean appends no period (line 272)
ClosingPunctuation == { ".", "!", "?", ";", ":" }

\* a match of the pattern ends where the text ends
EndsWithMatch(text, matches) ==
    \E k \in DOMAIN matches : matches[k][2] = Len(text) + 1

\* a code span ends where the text ends
EndsWithCode(text) == EndsWithMatch(text, FindIter(text, CodeMatch))

\* a URL or an email address ends where the text ends
EndsWithUrlOrEmail(text) ==
    EndsWithMatch(text, FindIter(text, UrlMatch) \o FindIter(text, EmailMatch))

\* the text without its last character
ButLast(text) == SubSeq(text, 1, Len(text) - 1)

\* the text that _final_clean received, without the whitespace at its end
ReceivedByFinalClean == Strip(prev)

\* C18: a non-empty output of RuleEngine.clean ends with one of . ! ? ; : or
\* with a complete code span; a period that follows a code span at the end
\* of the output was at the end of the text before _final_clean, not
\* appended; and when the text before _final_clean ends with a URL or an
\* email address that neither ends in closing punctuation nor in a code
\* span, the output ends with a period.
C18_TrailingPunctuation ==
    /\ (stage = "returned" /\ rmode \in Modes /\ cur # << >>) =>
           cur[Len(cur)] \in ClosingPunctuation \/ EndsWithCode(cur)
    /\ (stage = "final" /\ cur # << >> /\ cur[Len(cur)] = "."
            /\ EndsWithCode(ButLast(cur))) =>
           (ReceivedByFinalClean # << >>
               /\ ReceivedByFinalClean[Len(ReceivedByFinalClean)] = ".")
    /\ (stage = "final" /\ ReceivedByFinalClean # << >>
            /\ EndsWithUrlOrEmail(ReceivedByFinalClean)
            /\ ~EndsWithCode(ReceivedByFinalClean)
            /\ ReceivedByFinalClean[Len(ReceivedByFinalClean)] \notin ClosingPunctuation) =>
           (cur # << >> /\ cur[Len(cur)] = ".")

\* the fourth sample of the tests in mode conservative: the code span is
\* kept and the period follows the URL at the end
C18_Witness ==
    /\ stage = "returned"
    /\ rmode = "conservative"
    /\ input = SampleInput4
    /\ EndsWithUrlOrEmail(input)
    /\ cur = << "R" >> \o Tail(input) \o << "." >>

(***************************************************************************)
(* Duplicate words after _pre_clean, checked under SpecRule.               *)
(***************************************************************************)
\* a word (\w+) of the text starts at position i
WordStartsAt(text, i) ==
    /\ i \in 1..Len(text)
    /\ text[i] \in WordCh
    /\ (i = 1 \/ text[i - 1] \notin WordCh)

\* text[i..e-1] shares a character with a URL, an email address, a code
\* span, a hashtag or an emoji of the text
TouchesSpan(text, i, e) ==
    \E k \in DOMAIN PreCleanMatches(text) :
        PreCleanMatches(text)[k][1] < e /\ i < PreCleanMatches(text)[k][2]

\* the word at i is followed, after whitespace only, by the same word (up to
\* capitalisation), and both lie outside the protected spans
DuplicateAt(text, i) ==
    /\ WordStartsAt(text, i)
    /\ RunEnd(text, RunEnd(text, i, WordCh), Space) > RunEnd(text, i, WordCh)
    /\ WordStartsAt(text, RunEnd(text, RunEnd(text, i, WordCh), Space))
    /\ SameWord(Slice(text, i, RunEnd(text, i, WordCh)),
                Slice(text, RunEnd(text, RunEnd(text, i, WordCh), Space),
                      RunEnd(text, RunEnd(text, RunEnd(text, i, WordCh), Space), WordCh)))
    /\ ~TouchesSpan(text, i, RunEnd(text, i, WordCh))
    /\ ~TouchesSpan(text, RunEnd(text, RunEnd(text, i, WordCh), Space),
                    RunEnd(text, RunEnd(text, RunEnd(text, i, WordCh), Space), WordCh))

\* C19: the text that _pre_clean returns has no two adjacent words,
\* separated by whitespace only and outside the protected spans, that are
\* equal up to capitalisation.
C19_NoAdjacentDuplicates ==
    stage = "pre" => \A i \in 1..Len(cur) : ~DuplicateAt(cur, i)

(***************************************************************************)
(* The order of the stages of RuleEngine.clean, checked under SpecRule.    *)
(***************************************************************************)
\* the stage that clean chooses by its mode (lines 91-96)
StageOfMode(text, mode, filler_words) ==
    IF mode = "conservative" THEN ConservativeClean(text)
    ELSE IF mode = "standard" THEN StandardClean(text, filler_words)
    ELSE RewriteClean(text, filler_words)

\* one step of the stages of clean, in their order
PipelineStep ==
    /\ stage' = "pre" => (stage = "start" /\ ~IsBlank(input) /\ rmode' \in Modes
                            /\ cur' = PreClean(input))
    /\ stage' = "mode" => stage = "pre"
    /\ stage' = "final" => stage = "mode"
    /\ stage = "pre" =>
          /\ stage' = "mode"
          /\ rmode' = rmode
          /\ cur' = StageOfMode(cur, rmode, RuleFillerWords(rconfig))
    /\ stage = "mode" => (stage' = "final" /\ rmode' = rmode /\ cur' = FinalClean(cur))
    /\ stage = "final" => (stage' = "returned" /\ rmode' = rmode /\ cur' = Strip(cur))
    /\ stage = "returned" => FALSE

\* C21: a call of RuleEngine.clean on a text that is not blank runs
\* _pre_clean on the input, then the one stage of its mode on the result,
\* then _final_clean on that result, then returns; a stage is entered from
\* its predecessor only and left to its successor only, and nothing follows
\* the return.
C21_PipelineOrder == [][PipelineStep]_vars

\* the first sample of the tests has gone through the three stages of mode
\* rewrite
C21_Witness ==
    /\ stage = "returned"
    /\ rmode = "rewrite"
    /\ input = SampleInput1
    /\ prev = FinalClean(RewriteClean(PreClean(input), RuleFillerWords(rconfig)))
    /\ cur =
          << "O", "k", "a", "y", " ", "s", "o", " ", "w", "e", " ", "s",
             "h", "o", "u", "l", "d", ",", " ", "s", "e", "n", "d", " ",
             "t", "h", "e", " ", "e", "m", "a", "i", "l", " ", "t", "o",
             "m", "o", "r", "r", "o", "w", " ", "m", "o", "r", "n", "i",
             "n", "g", " ", "i", "t", "'", "s", " ", "i", "m", "p", "o",
             "r", "t", "a", "n", "t", "." >>

PairwiseDisjoint(matches) ==
    \A j, k \in DOMAIN matches :
        j # k => (matches[j][2] <= matches[k][1] \/ matches[k][2] <= matches[j][1])

\* C23: the matches that _pre_clean collects for protection (URL, email,
\* code, hashtag, emoji) are pairwise non-overlapping for every text, and so
\* are those that _final_clean collects (URL, email, code).
C23_SpansDoNotOverlap ==
    /\ stage = "pre_protected" => PairwiseDisjoint(PreCleanMatches(prev))
    /\ stage = "final_protected" => PairwiseDisjoint(FinalCleanMatches(prev))

\* the number of places at which the literal stands in the text
CountOf(text, lit) == Cardinality({ j \in 1..Len(text) : LitAt(text, j, lit) })

\* C24: when the rewrites between protect and restore are done, in
\* _pre_clean and in _final_clean, every placeholder of the placeholder map
\* stands in the text exactly once.
C24_PlaceholdersIntact ==
    stage \in { "pre_rewritten", "final_rewritten" } =>
        \A n \in DOMAIN preserved : CountOf(cur, preserved[n][1]) = 1

(***************************************************************************)
(* The timeouts of the requests of one call of clean_text, checked under   *)
(* SpecSettings.                                                           *)
(***************************************************************************)
\* the call of an engine within which the request at position i of the log
\* was sent
CallOfRequest(i) == Max({ j \in EngineCalls : j < i })

\* the requests that is_available sent, and those that clean sent
ProbeRequests ==
    { i \in NetworkRequests : log[CallOfRequest(i)].op = "is_available" }

CleaningRequests ==
    { i \in NetworkRequests : log[CallOfRequest(i)].op = "clean" }

\* C25: for each network engine, every timeout of a request that
\* is_available sends is strictly smaller than the timeout of the request
\* that clean sends, whatever http_timeout or local_llm_timeout is
\* configured.
C25_ProbeTimeoutShorter ==
    \A i \in ProbeRequests : \A j \in CleaningRequests :
        log[i].engine = log[j].engine => log[i].timeout < log[j].timeout


(***************************************************************************)
(* Fallback hops of one call of clean_text, checked under Spec.            *)
(***************************************************************************)
\* the calls of _fallback_clean that the network engine's clean makes for
\* the cleaned_text its backend call returned (llm_engine.py lines 33-48,
\* http_engine.py lines 34-50): none when cleaned_text is a non-empty
\* string, one in the else branch or in the except clause otherwise
FallbackCleans(cleaned_text) ==
    IF Truthy(cleaned_text) /\ ~StripValue(cleaned_text).raised THEN 0 ELSE 1

\* the runs of a rule engine's clean(text, mode) in this call: the ones of
\* the registered rule engine and the one inside the network engine
RuleCleansOfCall ==
    Cardinality({ i \in EngineCalls : log[i].op = "clean" /\ log[i].engine = "rule" })
    + (IF NetworkCleanRan THEN FallbackCleans(backend) ELSE 0)

\* C26: during one call of clean_text a rule engine's clean(text, mode) runs
\* at most once in total, the network engine's internal fallback and the
\* manager's fallback counted together, and the network engine sends at
\* most one cleaning request.
C26_SingleFallbackHop ==
    /\ RuleCleansOfCall <= 1
    /\ Cardinality(CleaningRequests) <= 1

\* the second half of C26 alone: at most one cleaning request per call
AtMostOneCleaningRequest == Cardinality(CleaningRequests) <= 1


(***************************************************************************)
(* Concurrent calls of RuleEngine.clean, checked under SpecThreads.        *)
(***************************************************************************)
\* C27: clean never writes to the engine instance, so for any interleaving
\* of concurrent calls on one instance, and after any earlier calls, each
\* call returns what clean(text, mode) returns when it runs alone.
C27_ConcurrentCallsAreIndependent ==
    \A t \in Threads :
        threads[t].at = "returned" =>
            threads[t].cur = RuleEngineClean(rconfig, threads[t].text, threads[t].mode)

\* a call returned a text other than its input while another thread, in
\* the middle of a call on a different text, has yet to return
C27_Witness ==
    \E t \in Threads, u \in Threads :
        /\ t # u
        /\ threads[t].at = "returned"
        /\ threads[t].cur # threads[t].text
        /\ threads[u].at \in { "mode", "final" }
        /\ threads[u].text # threads[t].text
        /\ ~IsBlank(threads[t].text)


(***************************************************************************)
(* The failing backend against the rule path, checked under Spec.          *)
(***************************************************************************)
\* the configured engine is a network engine and this call tried it
NetworkEngineTried ==
    /\ EngineName \in { "localllm", "http" }
    /\ \E i \in EngineCalls : log[i].engine = EngineName

\* the backend's cleaning request failed, or was never sent because the
\* availability probe failed
CleaningRequestFailed == ~NetworkCleanRan \/ backend = NoneValue

\* what clean_text returns for the same configuration, text and mode with
\* cleanup.engine set to "rule": the registered rule engine's clean
RulePathResult == AfterClean(RegisteredRuleClean(arg_text, ResolvedMode))

\* C28: with cleanup.engine set to localllm or http and the backend's
\* cleaning request failing, whether or not the probe succeeded, clean_text
\* returns the string it returns with cleanup.engine set to rule.
C28_BackendFailureIsRulePath ==
    (pc = "done" /\ NetworkEngineTried /\ CleaningRequestFailed) =>
        returned = RulePathResult

\* the case of C28 in which the probe failed: no cleaning request was sent
ProbeFailureIsRulePath ==
    (pc = "done" /\ NetworkEngineTried /\ ~NetworkCleanRan) =>
        returned = RulePathResult


(***************************************************************************)
(* The tray's Smart Cleanup toggle, checked under SpecSettings.            *)
(***************************************************************************)
\* a call of clean_text starts while the menu item is unchecked, and
\* returns its input unchanged
CallWhileUnchecked ==
    (calls' = calls + 1 /\ ~MenuChecked) =>
        (pc' = "done" /\ returned' = StrValue(arg_text'))

\* the menu check shows the value the manager reads for cleanup.enabled
MenuAgreesWithManager == MenuChecked = CleanupEnabled(CleanupConfig)

\* C29: starting from Smart Cleanup enabled, once _toggle_smart_cleanup has
\* left the menu item unchecked every call of clean_text returns its input
\* unchanged until the toggle runs again, and after any sequence of toggles
\* the menu check and the manager's cleanup.enabled agree.
C29_ToggleTakesEffect ==
    /\ [][CallWhileUnchecked]_vars
    /\ []MenuAgreesWithManager


\* the first half of C29 alone
UncheckedCallsReturnInput == [][CallWhileUnchecked]_vars


(***************************************************************************)
(* The filler list of a RuleEngine whose configuration names none, checked *)
(* under SpecRule.                                                         *)
(***************************************************************************)
\* a configuration that sets "filler_words" to the built-in default list
\* (rule_engine.py lines 23-45, the list of manager.py lines 30-48)
ExplicitDefaultConfig == [ filler_words |-> DefaultFillerWords ]

\* C30: a RuleEngine built from a configuration without the key
\* "filler_words" returns, in standard and rewrite modes, what a RuleEngine
\* configured with the built-in default fillers returns: it removes the
\* default fillers outside protected spans.
C30_DefaultFillerList ==
    (stage = "returned" /\ rconfig = EmptyDict /\ rmode \in { "standard", "rewrite" }) =>
        cur = RuleEngineClean(ExplicitDefaultConfig, input, rmode)

====
